---- MODULE Spec2Model ----
(***************************************************************************)
(* A model of logrus-stackdriver-formatter: the Formatter (ToEntry and the *)
(* stack origin resolver errorOrigin) and the HTTP logging / recovery      *)
(* middleware.                                                             *)
(*                                                                         *)
(* Go strings that are concatenated, joined or searched are modelled as    *)
(* sequences of tokens (a token is a TLA+ string): "a/b" is <<"a","/","b">>*)
(* and the empty string is <<>>.  A Go pointer or nilable value is a       *)
(* sequence of length 0 (nil) or 1.                                        *)
(***************************************************************************)
EXTENDS Integers, Sequences, FiniteSets, TLC

VARIABLES
    f,        \* the shared *Formatter built by NewFormatter
    e,        \* the logrus.Entry under construction / handed to ToEntry
    stk,      \* the goroutine's call stack when ToEntry runs (callers of ToEntry)
    origin,   \* the stack.Call errorOrigin returned (<<>> is stack.Call{}, also when not called)
    out,      \* what ToEntry produced: [panic, ee]
    fpc,      \* "build" while fields are added, "logged" after ToEntry ran
    reqs, \* the middlewares built and the requests being served concurrently
    again, \* the result of a second ToEntry of the same record
    keyvals, \* the keyvals given to the go-kit adapter, in order
    opts,     \* the *middlewareOptions LoggingMiddleware evaluated
    recovery, \* whether RecoveryMiddleware wraps the handler inside LoggingMiddleware
    r,        \* the *http.Request being served
    ctx,      \* the fields of the request-scoped log entry held in r.Context()
    request,  \* the *HTTPRequest LoggingMiddleware builds (<<>> before it does)
    w,        \* the http.ResponseWriter: header map and what went to the client
    logs,     \* the records the logger emitted, oldest first
    hpc,      \* where the request is: "idle", "handler", "panicking", "returned", "done", "crashed", "exited"
    pv,       \* the value the handler panicked with (<<>> when it did not)
    steps,    \* the steps the handler has taken
    call,     \* the RPC: whether it is a stream, and what was returned so far
    hooks     \* the invocations of the custom error handler, oldest first

fvars == <<f, e, stk, origin, out, fpc, keyvals, again, reqs>>
hvars == <<opts, recovery, r, ctx, request, w, logs, hpc, pv, steps, call, hooks>>
vars == <<fvars, hvars>>

----------------------------------------------------------------------------
(* Bounds *)

MaxFields == 2
\* calls on the goroutine's stack below the formatter, apart from the runtime's
MaxStack == 3
\* steps a handler takes before it returns or panics
MaxHandlerSteps == 2
\* keys and values in one call of the go-kit adapter
MaxKeyvals == 6

----------------------------------------------------------------------------
(* strings *)

RECURSIVE Join(_, _)
\* strings.Join(parts, sep)
Join(parts, sep) ==
    IF Len(parts) = 0 THEN <<>>
    ELSE IF Len(parts) = 1 THEN parts[1]
    ELSE parts[1] \o sep \o Join(Tail(parts), sep)

\* strings.Contains(s, sub)
Contains(s, sub) ==
    \E i \in 0..(Len(s) - Len(sub)) : SubSeq(s, i + 1, i + Len(sub)) = sub

\* the index (from 0) of the first occurrence of sub in s; only used when Contains(s, sub)
IndexOf(s, sub) ==
    CHOOSE i \in 0..(Len(s) - Len(sub)) :
        /\ SubSeq(s, i + 1, i + Len(sub)) = sub
        /\ \A j \in 0..(i - 1) : SubSeq(s, j + 1, j + Len(sub)) # sub

NL == <<"\n">>

----------------------------------------------------------------------------
(* values held in logrus.Fields (interface{}): a runtime type tag and what *)
(* the formatter reads of the value                                        *)

\* a value of runtime type t whose %v rendering (Error() for an error,
\* String() for a Stringer) is s
V(t, s) == [t |-> t, s |-> s, tid |-> <<>>, sid |-> <<>>, sampled |-> FALSE]

\* a trace.SpanContext: 16 trace-id bytes, 8 span-id bytes, the sampled flag
SpanCtx(tid, sid, sampled) ==
    [t |-> "SpanContext", s |-> <<"{span}">>, tid |-> tid, sid |-> sid, sampled |-> sampled]

IsError(v) == v.t \in {"error", "stackError"}

----------------------------------------------------------------------------
(* formatter.go: constants *)

TraceInMessage == 0
TraceInPayload == 1
TraceInBoth == 2

severityDebug == "DEBUG"
severityInfo == "INFO"
severityWarning == "WARNING"
severityError == "ERROR"
severityCritical == "CRITICAL"
severityAlert == "ALERT"

reportedErrorEventType ==
    "type.googleapis.com/google.devtools.clouderrorreporting.v1beta1.ReportedErrorEvent"

Levels == {"panic", "fatal", "error", "warning", "info", "debug", "trace"}

\* a faulty levelsToSeverity: a level without an entry is given DEBUG
levelsToSeverityOrDebug(level) ==
    CASE level = "info" -> severityInfo
      [] level = "warning" -> severityWarning
      [] level = "error" -> severityError
      [] level = "fatal" -> severityCritical
      [] level = "panic" -> severityAlert
      [] OTHER -> severityDebug

\* levelsToSeverity[level]; a missing key yields the zero value ""
levelsToSeverity(level) ==
    CASE level = "debug" -> severityDebug
      [] level = "info" -> severityInfo
      [] level = "warning" -> severityWarning
      [] level = "error" -> severityError
      [] level = "fatal" -> severityCritical
      [] level = "panic" -> severityAlert
      [] OTHER -> ""

----------------------------------------------------------------------------
(* options.go / formatter.go: the Formatter and its options *)

Opt(op, arg, n) == [op |-> op, arg |-> arg, n |-> n]

WithService(n) == Opt("WithService", n, 0)
WithVersion(v) == Opt("WithVersion", v, 0)
WithSourceReference(repository, revision) == Opt("WithSourceReference", repository \o <<"@">> \o revision, 0)
WithProjectID(i) == Opt("WithProjectID", i, 0)
WithStackSkip(v) == Opt("WithStackSkip", v, 0)
WithRegexSkip(v) == Opt("WithRegexSkip", v, 0)
WithSkipTimestamp == Opt("WithSkipTimestamp", <<>>, 0)
WithStackTraceStyle(s) == Opt("WithStackTraceStyle", <<>>, s)
WithPrettyPrint == Opt("WithPrettyPrint", <<>>, 0)
WithGlobalTraceID(id) == Opt("WithGlobalTraceID", id, 0)

\* option(&fmtr)
ApplyOption(fm, o) ==
    CASE o.op = "WithService" -> [fm EXCEPT !.Service = o.arg]
      [] o.op = "WithVersion" -> [fm EXCEPT !.Version = o.arg]
      [] o.op = "WithSourceReference" -> [fm EXCEPT !.SourceReference = Append(@, o.arg)]
      [] o.op = "WithProjectID" -> [fm EXCEPT !.ProjectID = o.arg]
      [] o.op = "WithStackSkip" -> [fm EXCEPT !.StackSkip = Append(@, o.arg)]
      [] o.op = "WithRegexSkip" -> [fm EXCEPT !.RegexSkip = o.arg]
      [] o.op = "WithSkipTimestamp" -> [fm EXCEPT !.SkipTimestamp = TRUE]
      [] o.op = "WithStackTraceStyle" -> [fm EXCEPT !.StackStyle = o.n]
      [] o.op = "WithPrettyPrint" -> [fm EXCEPT !.PrettyPrint = TRUE]
      [] o.op = "WithGlobalTraceID" -> [fm EXCEPT !.GlobalTraceID = o.arg]

RECURSIVE ApplyOptions(_, _)
ApplyOptions(fm, options) ==
    IF options = <<>> THEN fm
    ELSE ApplyOptions(ApplyOption(fm, Head(options)), Tail(options))

P(a, b, c) == <<a, "/", b, "/", c>>

LogrusPkg == P("github.com", "sirupsen", "logrus")
FormatterPkg == P("github.com", "StevenACoffman", "logrus-stackdriver-formatter")
GrpcMiddlewarePkg == P("github.com", "grpc-ecosystem", "go-grpc-middleware")
OtelPkg == <<"go.opentelemetry.io">>

\* the Formatter literal NewFormatter starts from
DefaultFormatter ==
    [ Service |-> <<>>, Version |-> <<>>, SourceReference |-> <<>>, ProjectID |-> <<>>,
      StackSkip |-> <<LogrusPkg, FormatterPkg, GrpcMiddlewarePkg, OtelPkg>>,
      StackStyle |-> TraceInMessage, SkipTimestamp |-> FALSE, RegexSkip |-> <<>>,
      PrettyPrint |-> FALSE, GlobalTraceID |-> <<>> ]

\* a faulty NewFormatter: no trace id is generated
NewFormatterWithoutID(options, id) == ApplyOptions(DefaultFormatter, options)

\* NewFormatter(options...); id is the uuid.NewV4() drawn when no trace id was configured
NewFormatter(options, id) ==
    LET fmtr == ApplyOptions(DefaultFormatter, options)
    IN  IF fmtr.GlobalTraceID = <<>> THEN ApplyOption(fmtr, WithGlobalTraceID(id)) ELSE fmtr

----------------------------------------------------------------------------
(* formatter.go: errorOrigin *)

VendorSep == <<"/", "vendor", "/">>

\* a faulty StripVendor: the package path is matched as it stands
StripVendorNot(pkg) == pkg

\* parts := strings.SplitN(pkg, "/vendor/", 2); pkg = parts[len(parts)-1]
StripVendor(pkg) ==
    IF Contains(pkg, VendorSep)
    THEN SubSeq(pkg, IndexOf(pkg, VendorSep) + Len(VendorSep) + 1, Len(pkg))
    ELSE pkg

\* the closure skip(pkg) of errorOrigin
skip(fm, pkg) == \E i \in 1..Len(fm.StackSkip) : Contains(pkg, fm.StackSkip[i])

\* a pattern regexp.MustCompile rejects (it panics)
BadRegex == <<"(">>

\* r.MatchString(fn) for the literal patterns of the model
MatchString(pattern, fn) == Contains(fn, pattern)

\* c.Frame().Function: the package path, a dot, the function
FrameFunction(c) == c.pkg \o <<".">> \o c.fn

\* the frame at index i is kept by errorOrigin's test (line 186)
Kept(fm, c) ==
    /\ ~skip(fm, StripVendor(c.pkg))
    /\ (fm.RegexSkip = <<>> \/ ~MatchString(fm.RegexSkip, FrameFunction(c)))

RECURSIVE originFrom(_, _, _)
\* the loop of errorOrigin from index i (1-based here): <<>> is stack.Call{}
originFrom(fm, stack, i) ==
    IF i > Len(stack) THEN <<>>
    ELSE IF Kept(fm, stack[i]) THEN <<stack[i]>>
    ELSE originFrom(fm, stack, i + 1)

\* errorOrigin(): stack is the goroutine's stack, errorOrigin's own frame first
errorOrigin(fm, stack) == originFrom(fm, stack, 1)

Frame(pkg, fn, file, line) == [pkg |-> pkg, fn |-> fn, file |-> file, line |-> line]

\* the frames of errorOrigin and ToEntry themselves, innermost first
OwnFrames ==
    << Frame(FormatterPkg, <<"(*Formatter).errorOrigin">>, FormatterPkg \o <<"/", "formatter.go">>, 177),
       Frame(FormatterPkg, <<"(*Formatter).ToEntry">>, FormatterPkg \o <<"/", "formatter.go">>, 260) >>

----------------------------------------------------------------------------
(* formatter.go: ToEntry *)

HexDigits == <<"0", "1", "2", "3", "4", "5", "6", "7", "8", "9", "a", "b", "c", "d", "e", "f">>

\* one byte as two lowercase hex digits
HexByte(b) == <<HexDigits[(b \div 16) + 1], HexDigits[(b % 16) + 1]>>

RECURSIVE HexEncode(_)
\* hex.EncodeToString: TraceID.String() and SpanID.String()
HexEncode(bytes) ==
    IF bytes = <<>> THEN <<>> ELSE HexByte(Head(bytes)) \o HexEncode(Tail(bytes))

RECURSIVE TrimZeros(_)
TrimZeros(s) == IF Len(s) > 1 /\ Head(s) = "0" THEN TrimZeros(Tail(s)) ELSE s

\* a faulty SpanIDString: the span id as a number, without its leading zeros
SpanIDStringTrimmed(sid) == TrimZeros(HexEncode(sid))

\* SpanID.String()
SpanIDString(sid) == HexEncode(sid)

\* TraceID.String(), used by %s
TraceIDString(tid) == HexEncode(tid)

\* SpanContext.IsValid(): a non-zero trace id and a non-zero span id
IsValid(sc) ==
    /\ \E i \in 1..Len(sc.tid) : sc.tid[i] # 0
    /\ \E i \in 1..Len(sc.sid) : sc.sid[i] # 0

\* delete(m, k)
Delete(m, k) == [x \in (DOMAIN m) \ {k} |-> m[x]]

\* a faulty replaceErrors: the fields are copied as they are
replaceErrorsCopying(source) == source

\* a faulty replaceErrors: error values are left out of the copy
replaceErrorsDropping(source) ==
    [k \in {x \in DOMAIN source : ~IsError(source[x])} |-> source[k]]

\* replaceErrors(source): an error value becomes the string v.Error()
replaceErrors(source) ==
    [k \in DOMAIN source |-> IF IsError(source[k]) THEN V("string", source[k].s) ELSE source[k]]

EmptyContext ==
    [ Data |-> <<>>, User |-> <<>>, ReportLocation |-> <<>>, HTTPRequest |-> <<>>,
      PubSubRequest |-> <<>>, GRPCRequest |-> <<>>, GRPCStatus |-> <<>>,
      SourceReferences |-> <<>> ]

\* the zero Entry
EmptyEntry ==
    [ Type |-> "", LogName |-> <<>>, Timestamp |-> <<>>, ServiceContext |-> <<>>,
      Message |-> <<>>, Severity |-> "", Context |-> EmptyContext, SourceLocation |-> <<>>,
      StackTrace |-> <<>>, Trace |-> <<>>, SpanID |-> <<>>, TraceSampled |-> FALSE,
      HTTPRequest |-> <<>> ]

\* fmt.Sprintf("projects/%s/traces/%s", project, id)
TracePath(project, id) == <<"projects/">> \o project \o <<"/traces/">> \o id

\* a faulty TraceStep: a span_context that is not valid is left in context.data
TraceStepKeepingInvalid(fm, en, ee) ==
    LET has == "span_context" \in DOMAIN en.Data
        tc == en.Data["span_context"]
        ok == has /\ tc.t = "SpanContext" /\ IsValid(tc)
        e1 == IF ok
              THEN [ee EXCEPT !.Trace = TracePath(fm.ProjectID, TraceIDString(tc.tid)),
                              !.SpanID = SpanIDString(tc.sid),
                              !.TraceSampled = tc.sampled,
                              !.Context.Data = Delete(@, "span_context")]
              ELSE ee
    IN  IF e1.Trace = <<>>
        THEN [e1 EXCEPT !.Trace = TracePath(fm.ProjectID, fm.GlobalTraceID)]
        ELSE e1

\* lines 221-234: the trace, span id and sampled flag
TraceStep(fm, en, ee) ==
    LET has == "span_context" \in DOMAIN en.Data
        tc == en.Data["span_context"]
        ok == has /\ tc.t = "SpanContext" /\ IsValid(tc)
        e1 == IF ok
              THEN [ee EXCEPT !.Trace = TracePath(fm.ProjectID, TraceIDString(tc.tid)),
                              !.SpanID = SpanIDString(tc.sid),
                              !.TraceSampled = tc.sampled]
              ELSE ee
        e2 == IF has THEN [e1 EXCEPT !.Context.Data = Delete(@, "span_context")] ELSE e1
    IN  IF e2.Trace = <<>>
        THEN [e2 EXCEPT !.Trace = TracePath(fm.ProjectID, fm.GlobalTraceID)]
        ELSE e2

\* line 237 panics when logID is not a string
LogIDPanics(en) == "logID" \in DOMAIN en.Data /\ en.Data["logID"].t # "string"

\* lines 236-240 (when it does not panic)
LogNameStep(fm, en, ee) ==
    IF "logID" \in DOMAIN en.Data
    THEN [ee EXCEPT !.LogName = <<"projects/">> \o fm.ProjectID \o <<"/logs/">> \o fm.Service
                                  \o <<"%2F">> \o en.Data["logID"].s]
    ELSE [ee EXCEPT !.LogName = <<"projects/">> \o fm.ProjectID \o <<"/logs/">> \o fm.Service]

\* time.Time.UTC().Format(time.RFC3339Nano)
FormatTime(t) == <<"RFC3339Nano(">> \o t \o <<")">>

\* lines 246-252; now is time.Now()
TimestampStep(fm, en, ee, now) ==
    IF ~fm.SkipTimestamp
    THEN IF en.Time # <<>> THEN [ee EXCEPT !.Timestamp = FormatTime(en.Time)]
         ELSE [ee EXCEPT !.Timestamp = FormatTime(now)]
    ELSE ee

\* extractFromCaller(e)
extractFromCaller(en) ==
    << [FilePath |-> en.Caller[1].file, LineNumber |-> en.Caller[1].line,
        FunctionName |-> en.Caller[1].fn] >>

\* extractFromCallStack(c, lineNumber): go-stack renders the zero Call as %!v(NOFUNC),
\* and strconv.ParseInt of that fails, which leaves line 0
extractFromCallStack(c) ==
    IF c = <<>>
    THEN << [FilePath |-> <<"%!s(NOFUNC)">>, LineNumber |-> 0, FunctionName |-> <<"%!n(NOFUNC)">>] >>
    ELSE << [FilePath |-> c[1].file, LineNumber |-> c[1].line, FunctionName |-> c[1].fn] >>

\* errorOrigin panics in regexp.MustCompile (line 173)
RegexPanics(fm, en) == en.Caller = <<>> /\ fm.RegexSkip = BadRegex

\* a faulty SourceLocationStep: the stack is walked whether or not e.Caller is set
SourceLocationStepFromStack(fm, en, ee, stack) ==
    [ee EXCEPT !.SourceLocation = extractFromCallStack(errorOrigin(fm, stack))]

\* lines 254-263
SourceLocationStep(fm, en, ee, stack) ==
    IF en.Caller # <<>>
    THEN [ee EXCEPT !.SourceLocation = extractFromCaller(en)]
    ELSE [ee EXCEPT !.SourceLocation = extractFromCallStack(errorOrigin(fm, stack))]

\* a faulty IsErrorSeverity: WARNING is treated as an error severity too
IsErrorSeverityWithWarning(sev) ==
    sev \in {severityWarning, severityError, severityCritical, severityAlert}

\* the cases of the switch at line 266
IsErrorSeverity(sev) == sev \in {severityError, severityCritical, severityAlert}

\* lines 267-287
ServiceContextStep(fm, ee) ==
    LET e1 == [ee EXCEPT !.ServiceContext = << [Service |-> fm.Service, Version |-> fm.Version] >>]
        e2 == IF fm.SourceReference # <<>>
              THEN [e1 EXCEPT !.Context.SourceReferences = fm.SourceReference]
              ELSE e1
    IN  IF e2.SourceLocation # <<>>
        THEN [e2 EXCEPT !.Context.ReportLocation =
                 << [FilePath |-> e2.SourceLocation[1].FilePath,
                     LineNumber |-> e2.SourceLocation[1].LineNumber,
                     FunctionName |-> e2.SourceLocation[1].FunctionName] >>]
        ELSE e2

\* extractStackFromError(err): <<>> is nil; otherwise the bytes, wrapped
extractStackFromError(err) ==
    IF err.t = "stackError"
    THEN << err.s \o NL \o <<"goroutine 1 [running]:">> \o NL \o <<"frames">> >>
    ELSE <<>>

\* a faulty ErrorStep: only a value of type error is appended to the message
ErrorStepErrorsOnly(fm, en, st) ==
    IF "error" \in DOMAIN en.Data /\ IsError(en.Data["error"])
    THEN [st EXCEPT !.message = Append(@, en.Data["error"].s)]
    ELSE st

\* lines 289-304 on the pair [ee, message]
ErrorStep(fm, en, st) ==
    IF "error" \in DOMAIN en.Data
    THEN LET err == en.Data["error"]
             payloadTrace == fm.StackStyle = TraceInPayload \/ fm.StackStyle = TraceInBoth
             stackTrace == extractStackFromError(err)
             e1 == IF IsError(err) /\ payloadTrace /\ stackTrace # <<>>
                   THEN [st.ee EXCEPT !.StackTrace = Join(Append(st.message, stackTrace[1]), NL)]
                   ELSE st.ee
         IN  [ee |-> e1, message |-> Append(st.message, err.s)]
    ELSE st

\* a faulty StackTraceStep: a stack trace taken from the error is kept
StackTraceStepKeepingErrorStack(fm, st) ==
    IF "stackTrace" \in DOMAIN st.ee.Context.Data
    THEN LET stack == Append(st.message, st.ee.Context.Data["stackTrace"].s)
             message == IF fm.StackStyle = TraceInMessage \/ fm.StackStyle = TraceInBoth
                        THEN stack ELSE st.message
             e1 == IF (fm.StackStyle = TraceInPayload \/ fm.StackStyle = TraceInBoth)
                      /\ st.ee.StackTrace = <<>>
                   THEN [st.ee EXCEPT !.StackTrace = Join(stack, NL)]
                   ELSE st.ee
         IN  [ee |-> [e1 EXCEPT !.Context.Data = Delete(@, "stackTrace")], message |-> message]
    ELSE st

\* lines 306-322
StackTraceStep(fm, st) ==
    IF "stackTrace" \in DOMAIN st.ee.Context.Data
    THEN LET stack == Append(st.message, st.ee.Context.Data["stackTrace"].s)
             message == IF fm.StackStyle = TraceInMessage \/ fm.StackStyle = TraceInBoth
                        THEN stack ELSE st.message
             e1 == IF fm.StackStyle = TraceInPayload \/ fm.StackStyle = TraceInBoth
                   THEN [st.ee EXCEPT !.StackTrace = Join(stack, NL)]
                   ELSE st.ee
         IN  [ee |-> [e1 EXCEPT !.Context.Data = Delete(@, "stackTrace")], message |-> message]
    ELSE st

\* a faulty Reportable: the version is required as well
ReportableWithVersion(message, ee) ==
    /\ Len(message) > 0
    /\ ee.ServiceContext[1].Service # <<>>
    /\ ee.ServiceContext[1].Version # <<>>
    /\ (ee.StackTrace # <<>> \/ ee.SourceLocation # <<>>)

\* the condition at lines 326-327
Reportable(message, ee) ==
    /\ Len(message) > 0
    /\ ee.ServiceContext[1].Service # <<>>
    /\ (ee.StackTrace # <<>> \/ ee.SourceLocation # <<>>)

\* lines 324-329
TypeStep(st) ==
    IF Reportable(st.message, st.ee)
    THEN [st EXCEPT !.ee.Type = reportedErrorEventType]
    ELSE st

\* lines 265-330: the switch on the severity
SeverityStep(fm, en, st) ==
    IF IsErrorSeverity(st.ee.Severity)
    THEN TypeStep(StackTraceStep(fm, ErrorStep(fm, en, [st EXCEPT !.ee = ServiceContextStep(fm, st.ee)])))
    ELSE st

\* lines 332-342
PromoteUser(ee) ==
    IF "user" \in DOMAIN ee.Context.Data
    THEN LET userData == ee.Context.Data["user"]
         IN  IF userData.t \in {"string", "Stringer"}
             THEN [ee EXCEPT !.Context.User = userData.s,
                             !.Context.Data = Delete(@, "user")]
             ELSE ee
    ELSE ee

\* a faulty HasType: the presence of the key is all that is tested
HasTypeOrNot(data, k, t) == k \in DOMAIN data

\* Data[k].(T): the key is present and holds a value of runtime type T
HasType(data, k, t) == k \in DOMAIN data /\ data[k].t = t

\* lines 344-349
PromoteHTTPRequest(ee) ==
    IF HasType(ee.Context.Data, "httpRequest", "*HTTPRequest")
    THEN [ee EXCEPT !.Context.HTTPRequest = <<ee.Context.Data["httpRequest"]>>,
                    !.Context.Data = Delete(@, "httpRequest")]
    ELSE ee

\* lines 351-358: req.HTTPRequest is the *HTTPRequest embedded in requestDetails
PromoteRequestDetails(ee) ==
    IF HasType(ee.Context.Data, "httpRequest", "requestDetails")
    THEN [ee EXCEPT !.HTTPRequest = <<V("*HTTPRequest", ee.Context.Data["httpRequest"].s)>>,
                    !.Context.Data = Delete(@, "httpRequest")]
    ELSE ee

\* lines 360-365
PromoteGRPCRequest(ee) ==
    IF HasType(ee.Context.Data, "grpcRequest", "*GRPCRequest")
    THEN [ee EXCEPT !.Context.GRPCRequest = <<ee.Context.Data["grpcRequest"]>>,
                    !.Context.Data = Delete(@, "grpcRequest")]
    ELSE ee

\* lines 367-372
PromoteGRPCStatus(ee) ==
    IF HasType(ee.Context.Data, "grpcStatus", "RawMessage")
    THEN [ee EXCEPT !.Context.GRPCStatus = <<ee.Context.Data["grpcStatus"]>>,
                    !.Context.Data = Delete(@, "grpcStatus")]
    ELSE ee

\* lines 374-379: the key deleted is spelled "pubsubRequest"
PromotePubSubRequest(ee) ==
    IF HasType(ee.Context.Data, "pubSubRequest", "map")
    THEN [ee EXCEPT !.Context.PubSubRequest = <<ee.Context.Data["pubSubRequest"]>>,
                    !.Context.Data = Delete(@, "pubsubRequest")]
    ELSE ee

\* lines 332-379
Promote(ee) ==
    PromotePubSubRequest(PromoteGRPCStatus(PromoteGRPCRequest(
        PromoteRequestDetails(PromoteHTTPRequest(PromoteUser(ee))))))

\* a faulty replaceErrors: the result is the source map itself
SharesFields == FALSE

\* replaceErrors builds its result in a map made for it (data := make(...)), so the
\* deletions ToEntry makes in ee.Context.Data do not reach the record's map
CopiesFields == TRUE

\* the record's field map after ToEntry returned res
SourceAfter(en, res) ==
    IF res.panic \/ CopiesFields THEN en.Data ELSE res.ee.Context.Data

\* ToEntry(e) of formatter f; stack is the goroutine's call stack above ToEntry and
\* now is time.Now().  The result is [panic, ee]: ToEntry either panics or returns
\* the entry ee with a nil error.
ToEntry(fm, en, stack, now) ==
    IF LogIDPanics(en) \/ RegexPanics(fm, en)
    THEN [panic |-> TRUE, ee |-> EmptyEntry]
    ELSE LET e0 == [EmptyEntry EXCEPT !.Severity = levelsToSeverity(en.Level),
                                      !.Context.Data = replaceErrors(en.Data)]
             e1 == LogNameStep(fm, en, TraceStep(fm, en, e0))
             message == IF Len(en.Message) > 0 THEN <<en.Message>> ELSE <<>>
             e2 == SourceLocationStep(fm, en, TimestampStep(fm, en, e1, now), OwnFrames \o stack)
             st == SeverityStep(fm, en, [ee |-> e2, message |-> message])
         IN  [panic |-> FALSE,
              ee |-> [Promote(st.ee) EXCEPT !.Message = Join(st.message, NL)]]

----------------------------------------------------------------------------
(* The formatter's environment: formatters, field values, call stacks *)

EmptyMap == [x \in {} |-> <<>>]

TestService == <<"test">>
TestVersion == <<"0.1">>
TestProject == <<"test-project">>

\* the trace id of the tests, 105445aa7843bc8bf206b12000100000, as 16 bytes
TestTraceID == <<16, 84, 69, 170, 120, 67, 188, 139, 242, 6, 177, 32, 0, 16, 0, 0>>
\* a uuid.NewV4() of a formatter that was given no trace id
GeneratedIDs == { <<"7f", "3c", "uuid">> }

ZeroSpanID == <<0, 0, 0, 0, 0, 0, 0, 0>>
TestSpanID == <<0, 0, 0, 0, 0, 0, 0, 1>>
OtherSpanID == <<0, 255, 0, 0, 0, 0, 171, 16>>

\* the option lists NewFormatter is called with
OptionLists ==
    { <<WithProjectID(TestProject)>> \o so \o vo \o st :
        so \in {<<>>, <<WithService(TestService)>>},
        vo \in {<<>>, <<WithVersion(TestVersion)>>},
        st \in {<<>>, <<WithStackTraceStyle(TraceInPayload)>>, <<WithStackTraceStyle(TraceInBoth)>>} }
    \cup
    { <<WithService(TestService), WithVersion(TestVersion)>> \o x :
        x \in { <<WithSkipTimestamp, WithSourceReference(<<"repo">>, <<"v1.2.3">>),
                  WithGlobalTraceID(HexEncode(TestTraceID))>>,
                <<WithRegexSkip(<<"Handler">>)>>,
                <<WithRegexSkip(<<".">>)>>,
                <<WithRegexSkip(BadRegex)>>,
                <<WithStackSkip(<<"app">>), WithPrettyPrint>> } }

Keys == {"error", "stackTrace", "span_context", "logID", "user", "httpRequest",
         "grpcRequest", "grpcStatus", "pubSubRequest", "foo"}

TestStack == <<"goroutine 1 [running]:">> \o NL \o <<"main.main()">>

\* the values a record may carry under key k, well typed and mistyped
FieldValues(k) ==
    CASE k = "error" -> { V("error", <<"test error">>), V("error", <<>>),
                          V("stackError", <<"boom">>), V("string", <<"oops">>) }
      [] k = "stackTrace" -> { V("string", TestStack), V("string", <<>>) }
      [] k = "span_context" -> { SpanCtx(TestTraceID, TestSpanID, TRUE),
                                 SpanCtx(TestTraceID, OtherSpanID, FALSE),
                                 SpanCtx(TestTraceID, ZeroSpanID, TRUE),
                                 V("string", <<"105445aa/1;o=1">>) }
      [] k = "logID" -> { V("string", <<"sub">>), V("int", <<"7">>) }
      [] k = "user" -> { V("string", <<"alice">>), V("Stringer", <<"bob">>), V("int", <<"42">>) }
      [] k = "httpRequest" -> { V("*HTTPRequest", <<"GET /">>), V("requestDetails", <<"GET /">>),
                                V("map", <<"requestMethod:GET">>) }
      [] k = "grpcRequest" -> { V("*GRPCRequest", <<"/svc/Ping">>), V("map", <<"method">>) }
      [] k = "grpcStatus" -> { V("RawMessage", <<"{code:13}">>), V("string", <<"Internal">>) }
      [] k = "pubSubRequest" -> { V("map", <<"topic">>), V("string", <<"topic">>) }
      [] OTHER -> { V("string", <<"bar">>) }

Messages == { <<>>, <<"my log entry">> }

AppPkg == P("app", "internal", "svc")
AppFrame == Frame(AppPkg, <<"Handler">>, AppPkg \o <<"/", "handler.go">>, 30)
LogrusFrame == Frame(LogrusPkg, <<"(*Entry).Log">>, LogrusPkg \o <<"/", "entry.go">>, 241)
WrapperFrame == Frame(FormatterPkg \o <<"/", "test">>, <<"(*LogWrapper).Error">>,
                      FormatterPkg \o <<"/", "test", "/", "logger.go">>, 12)
TestingFrame == Frame(<<"testing">>, <<"tRunner">>, <<"testing", "/", "testing.go">>, 1439)
\* every goroutine's outermost frame
RuntimeFrame == Frame(<<"runtime">>, <<"goexit">>, <<"runtime", "/", "asm_amd64.s">>, 1581)

\* the callers of ToEntry: logrus called by the application, or by the test wrapper
CallStacks == { <<LogrusFrame, AppFrame, RuntimeFrame>>,
                <<LogrusFrame, WrapperFrame, TestingFrame, RuntimeFrame>> }

\* e.Caller when the logger reports callers
Callers == { <<>>, <<AppFrame>> }

LogTime == <<"t1">>
Now == <<"t2">>

\* logrus.NewEntry(logger)
NewEntry == [Data |-> EmptyMap, Level |-> "panic", Message |-> <<>>, Caller |-> <<>>, Time |-> <<>>]

----------------------------------------------------------------------------
(* middleware_options.go *)

\* strings.HasPrefix(s, prefix)
HasPrefix(s, prefix) == Len(s) >= Len(prefix) /\ SubSeq(s, 1, Len(prefix)) = prefix

\* a faulty DefaultFilterHTTP: only the user agents are filtered
DefaultFilterHTTPAgentsOnly(rq) ==
    ~ \/ rq.UserAgent = <<"Envoy/HC">>
      \/ HasPrefix(rq.UserAgent, <<"kube-probe/">>)
      \/ HasPrefix(rq.UserAgent, <<"GoogleHC/">>)
      \/ HasPrefix(rq.UserAgent, <<"GoogleStackdriverMonitoring">>)

\* DefaultFilterHTTP(r)
DefaultFilterHTTP(rq) ==
    ~ \/ rq.UserAgent = <<"Envoy/HC">>
      \/ HasPrefix(rq.UserAgent, <<"kube-probe/">>)
      \/ HasPrefix(rq.UserAgent, <<"GoogleHC/">>)
      \/ HasPrefix(rq.UserAgent, <<"GoogleStackdriverMonitoring">>)
      \/ HasPrefix(rq.Path, <<"/", "health">>)

\* o.filterHTTP(r): a FilterHTTP is held by name
filterHTTP(o, rq) ==
    CASE o.filterHTTP = "DefaultFilterHTTP" -> DefaultFilterHTTP(rq)
      [] o.filterHTTP = "AlwaysTrue" -> TRUE
      [] OTHER -> FALSE

defaultLogOptions ==
    [ filterRPC |-> "DefaultFilterRPC", filterHTTP |-> "DefaultFilterHTTP",
      customErrHandler |-> "DefaultErrorHandler" ]

WithRPCFilter(fn) == [op |-> "WithRPCFilter", fn |-> fn]
WithHTTPFilter(fn) == [op |-> "WithHTTPFilter", fn |-> fn]
WithErrorHandler(h) == [op |-> "WithErrorHandler", fn |-> h]

\* o(optCopy) for one MiddlewareOption
ApplyMiddlewareOption(o, mo) ==
    CASE mo.op = "WithRPCFilter" -> [o EXCEPT !.filterRPC = mo.fn]
      [] mo.op = "WithHTTPFilter" -> [o EXCEPT !.filterHTTP = mo.fn]
      [] mo.op = "WithErrorHandler" -> [o EXCEPT !.customErrHandler = mo.fn]

RECURSIVE ApplyMiddlewareOptions(_, _)
ApplyMiddlewareOptions(o, mos) ==
    IF mos = <<>> THEN o
    ELSE ApplyMiddlewareOptions(ApplyMiddlewareOption(o, Head(mos)), Tail(mos))

\* evaluateMiddlewareOptions(opts): a copy of the defaults with the options applied
evaluateMiddlewareOptions(mos) == ApplyMiddlewareOptions(defaultLogOptions, mos)

----------------------------------------------------------------------------
(* the HTTP middleware: getRemoteIP, LoggingMiddleware, RecoveryMiddleware *)

StatusOK == 200
StatusNotFound == 404
StatusInternalServerError == 500
\* codes.Unknown, codes.NotFound, codes.Internal
Unknown == 2
NotFound == 5
Internal == 13

RECURSIVE Split(_, _)
\* strings.Split(s, sep) for a one-token separator
Split(s, sep) ==
    IF ~Contains(s, <<sep>>) THEN <<s>>
    ELSE LET i == IndexOf(s, <<sep>>)
         IN  <<SubSeq(s, 1, i)>> \o Split(SubSeq(s, i + 2, Len(s)), sep)

RECURSIVE TrimSpace(_)
\* strings.TrimSpace(s)
TrimSpace(s) ==
    IF s # <<>> /\ Head(s) = " " THEN TrimSpace(Tail(s))
    ELSE IF s # <<>> /\ s[Len(s)] = " " THEN TrimSpace(SubSeq(s, 1, Len(s) - 1))
    ELSE s

\* net.SplitHostPort(addr): <<host>>, or <<>> when it returns an error
SplitHostPort(addr) ==
    IF Len(addr) = 3 /\ addr[2] = ":" THEN <<addr[1]>> ELSE <<>>

\* a faulty getRemoteIP: the last entry of the header is taken
getRemoteIPLastEntry(rq) ==
    LET forwarded == Split(rq.XForwardedFor, ",")
    IN  IF Len(forwarded) >= 2 THEN TrimSpace(forwarded[Len(forwarded)])
        ELSE IF SplitHostPort(rq.RemoteAddr) = <<>> THEN <<"0.0.0.0">>
        ELSE SplitHostPort(rq.RemoteAddr)

\* the string getRemoteIP returns
getRemoteIP(rq) ==
    LET forwarded == Split(rq.XForwardedFor, ",")
    IN  IF Len(forwarded) >= 2 THEN TrimSpace(forwarded[Len(forwarded) - 1])
        ELSE IF SplitHostPort(rq.RemoteAddr) = <<>> THEN <<"0.0.0.0">>
        ELSE SplitHostPort(rq.RemoteAddr)

\* m.Code of httpsnoop.CaptureMetrics: the status written, 200 when none was
MetricsCode(rw) == IF rw.wroteHeader THEN rw.status ELSE StatusOK

\* m.Written: what was written to the body, counted in tokens
MetricsWritten(rw) == Len(rw.body)

\* w.WriteHeader(code): only the first call reaches the client, with the header
\* map as it stands at that moment
WriteHeader(rw, code) ==
    IF rw.wroteHeader THEN rw
    ELSE [rw EXCEPT !.wroteHeader = TRUE, !.status = code, !.sentContentType = rw.header]

\* w.Write(b) that succeeds: writes the header with 200 first if none was written
Write(rw, b) == [WriteHeader(rw, StatusOK) EXCEPT !.body = @ \o b]

\* w.Header().Set("Content-Type", v)
SetContentType(rw, v) == [rw EXCEPT !.header = v]

\* a ResponseWriter nothing was written to
NewResponseWriter ==
    [header |-> <<>>, wroteHeader |-> FALSE, status |-> 0, sentContentType |-> <<>>, body |-> <<>>]

\* debug.Stack()
DebugStack == <<"goroutine 7 [running]:", "\n", "runtime/debug.Stack()", "\n", "panic(...)">>

\* what recover() returns for a panic with v: for panic(nil) it is nil, or a
\* *runtime.PanicNilError when the program is built with the newer panic semantics
Recovered(v) ==
    IF v.t = "nil"
    THEN { v, V("error", <<"panic called with nil argument (obsolete)">>) }
    ELSE { v }

\* the normalisation of the recovered value (lines 246-253)
PanicError(v) ==
    CASE v.t = "string" -> V("error", v.s)
      [] IsError(v) -> v
      [] OTHER -> V("error", <<"unknown panic value: (", v.t, ") ">> \o v.s)

\* protojson of the status errWithStack returns: code Internal, "server error",
\* one RequestInfo detail with the request id
StatusJSON(reqID) ==
    << "{\"code\":", ToString(Internal), ",\"message\":\"", "server error",
       "\",\"details\":[{\"@type\":\"type.googleapis.com/google.rpc.RequestInfo\",\"requestId\":\"" >>
    \o reqID \o << "\",\"servingData\":\"\"}]}" >>

\* a record the logger emitted: the entry's fields with the request as it is now
Record(level, msg, data, rq) == [Level |-> level, Message |-> msg, Data |-> data, Request |-> rq]

\* m with k set to v
Put(m, k, v) == [x \in (DOMAIN m) \cup {k} |-> IF x = k THEN v ELSE m[x]]

\* the record errWithStack logs (lines 335-336)
PanicRecord(fields, rq, err) ==
    Record("error", <<"panic handling request">>,
           Put(Put(fields, "error", err), "stackTrace", V("string", DebugStack)), rq)

\* the record LoggingMiddleware logs at line 75
SummaryRecord(fields, rq, req) ==
    Record("info", <<"served HTTP ">> \o req.Method \o <<" ">> \o req.Path,
           Put(fields, "httpRequest", V("requestDetails", <<>>)), rq)

----------------------------------------------------------------------------
(* the gRPC interceptors: loggingInterceptor, the recovery interceptors *)

\* a faulty DefaultFilterRPC: only the health checks are filtered
DefaultFilterRPCHealthOnly(method) ==
    ~ HasPrefix(method, <<"/grpc.health">>)

\* DefaultFilterRPC(ctx, fullMethod, err)
DefaultFilterRPC(method) ==
    ~ \/ HasPrefix(method, <<"/grpc.health">>)
      \/ HasPrefix(method, <<"/grpc.reflection">>)

\* l.filterRPC(ctx, method, err): a FilterRPC is held by name
filterRPC(o, method, err) ==
    CASE o.filterRPC = "DefaultFilterRPC" -> DefaultFilterRPC(method)
      [] o.filterRPC = "AlwaysTrue" -> TRUE
      [] OTHER -> FALSE

\* l.customErrHandler(ctx, err, method): an ErrorHandler is held by name;
\* DefaultErrorHandler returns false, "Handled" reports the error as logged
customErrHandler(o, err, method) ==
    o.customErrHandler = "Handled"

\* an error made by status.New(code, msg).WithDetails(details).Err()
StatusError(code, msg, details) ==
    [t |-> "status", s |-> msg, code |-> code, details |-> details]

\* status.Convert(err): the status of a status error, Unknown with the error's
\* message for any other error
Convert(err) ==
    IF err.t = "status" THEN err ELSE StatusError(Unknown, err.s, <<>>)

\* a byte sequence that is not valid UTF-8
InvalidUTF8 == <<"\\xff">>

\* whether protojson marshals st.Proto(): it refuses a string field that is not
\* valid UTF-8
Marshals(st) == ~Contains(st.s, InvalidUTF8)

\* statusRPCToHTTP(err), for the codes of this environment
statusRPCToHTTP(err) ==
    IF err = <<>> THEN StatusOK
    ELSE CASE Convert(err[1]).code = NotFound -> StatusNotFound
           [] Convert(err[1]).code = Internal -> StatusInternalServerError
           [] OTHER -> StatusInternalServerError

\* a faulty handleError: the custom error handler is asked before the Internal
\* case is looked at
handleErrorHandlerFirst(o, c, lg, hk, err, method, rq) ==
    IF err = <<>>
    THEN [handled |-> FALSE, ctx |-> c, logs |-> lg, hooks |-> hk]
    ELSE LET st == Convert(err[1])
             c1 == Put(c, "grpcStatus", V("json.RawMessage", <<ToString(st.code)>>))
             hk1 == Append(hk, [err |-> err[1], method |-> method, logged |-> Len(lg)])
         IN  IF ~Marshals(st)
             THEN [handled |-> FALSE, ctx |-> c, hooks |-> hk,
                   logs |-> Append(lg, Record("warning",
                                              <<"error marshalling error status into log">>,
                                              Put(c, "error", V("error", <<"proto: invalid UTF-8">>)),
                                              rq))]
             ELSE IF customErrHandler(o, err[1], method)
             THEN [handled |-> TRUE, ctx |-> c1, logs |-> lg, hooks |-> hk1]
             ELSE IF st.code = Internal
             THEN [handled |-> TRUE, ctx |-> c1, hooks |-> hk1,
                   logs |-> Append(lg, Record("error",
                                              <<"internal error response on RPC ">> \o method,
                                              Put(c1, "error", err[1]), rq))]
             ELSE [handled |-> FALSE, ctx |-> c1, logs |-> lg, hooks |-> hk1]

\* handleError: whether the summary is to be skipped, with the logging context,
\* the records and the invocations of the custom error handler after it.  An
\* invocation is recorded with the number of records emitted before it.
handleError(o, c, lg, hk, err, method, rq) ==
    IF err = <<>>
    THEN [handled |-> FALSE, ctx |-> c, logs |-> lg, hooks |-> hk]
    ELSE LET st == Convert(err[1])
             c1 == Put(c, "grpcStatus", V("json.RawMessage", <<ToString(st.code)>>))
         IN  IF ~Marshals(st)
             THEN [handled |-> FALSE, ctx |-> c, hooks |-> hk,
                   logs |-> Append(lg, Record("warning",
                                              <<"error marshalling error status into log">>,
                                              Put(c, "error", V("error", <<"proto: invalid UTF-8">>)),
                                              rq))]
             ELSE IF st.code = Internal
             THEN [handled |-> TRUE, ctx |-> c1, hooks |-> hk,
                   logs |-> Append(lg, Record("error",
                                              <<"internal error response on RPC ">> \o method,
                                              Put(c1, "error", err[1]), rq))]
             ELSE [handled |-> customErrHandler(o, err[1], method), ctx |-> c1, logs |-> lg,
                   hooks |-> Append(hk, [err |-> err[1], method |-> method,
                                         logged |-> Len(lg)])]

\* a faulty log: the summary is emitted whether or not the error was handled
logAlways(o, c, lg, hk, err, method, rq) ==
    IF ~filterRPC(o, method, err)
    THEN [ctx |-> c, logs |-> lg, hooks |-> hk]
    ELSE LET h == handleError(o, c, lg, hk, err, method, rq)
         IN  [ctx |-> h.ctx, hooks |-> h.hooks,
              logs |-> Append(h.logs,
                              Record("info", <<"served RPC ">> \o method,
                                     Put(h.ctx, "httpRequest",
                                         V("requestDetails",
                                           <<ToString(statusRPCToHTTP(err))>>)),
                                     rq))]

\* l.log(ctx, err, method, request): the logging context, the records and the
\* invocations of the custom error handler after it
log(o, c, lg, hk, err, method, rq) ==
    IF ~filterRPC(o, method, err)
    THEN [ctx |-> c, logs |-> lg, hooks |-> hk]
    ELSE LET h == handleError(o, c, lg, hk, err, method, rq)
         IN  IF h.handled
             THEN [ctx |-> h.ctx, logs |-> h.logs, hooks |-> h.hooks]
             ELSE [ctx |-> h.ctx, hooks |-> h.hooks,
                   logs |-> Append(h.logs,
                                   Record("info", <<"served RPC ">> \o method,
                                          Put(h.ctx, "httpRequest",
                                              V("requestDetails",
                                                <<ToString(statusRPCToHTTP(err))>>)),
                                          rq))]

\* no RPC; hresp and herr are what the handler returned, resp and err what the
\* interceptors inside the logging interceptor returned
NoCall == [stream |-> FALSE, hresp |-> <<>>, herr |-> <<>>, resp |-> <<>>, err |-> <<>>]

\* the state before a request arrives
NoRequest ==
    /\ opts = defaultLogOptions
    /\ recovery = TRUE
    /\ r = [Method |-> <<>>, Path |-> <<>>, UserAgent |-> <<>>, XForwardedFor |-> <<>>,
            RemoteAddr |-> <<>>]
    /\ ctx = EmptyMap
    /\ request = <<>>
    /\ w = NewResponseWriter
    /\ logs = <<>>
    /\ hpc = "idle"
    /\ pv = <<>>
    /\ steps = 0
    /\ call = NoCall
    /\ hooks = <<>>

----------------------------------------------------------------------------
(* The formatter as a state machine *)

InitFormatter ==
    /\ f \in { NewFormatter(o, id) : o \in OptionLists, id \in GeneratedIDs }
    /\ e = NewEntry
    /\ stk = <<>>
    /\ origin = <<>>
    /\ out = [panic |-> FALSE, ee |-> EmptyEntry]
    /\ fpc = "build"
    /\ reqs = <<>>
    /\ again = [panic |-> FALSE, ee |-> EmptyEntry]
    /\ keyvals = <<>>
    /\ NoRequest

\* entry.WithField(k, v), entry.WithError(err)
WithField(k, v) ==
    /\ fpc = "build"
    /\ k \notin DOMAIN e.Data
    /\ Cardinality(DOMAIN e.Data) < MaxFields
    /\ e' = [e EXCEPT !.Data = [x \in (DOMAIN e.Data) \cup {k} |-> IF x = k THEN v ELSE e.Data[x]]]
    /\ UNCHANGED <<f, stk, origin, out, fpc, keyvals, again, reqs>>
    /\ UNCHANGED hvars

\* entry.Log(level, msg): logrus stamps the entry and the formatter's ToEntry runs;
\* the record keeps the field map ToEntry left it with
Log(level, msg, caller, stack) ==
    /\ fpc = "build"
    /\ LET en == [e EXCEPT !.Level = level, !.Message = msg, !.Caller = caller, !.Time = LogTime]
           res == ToEntry(f, en, stack, Now)
       IN  /\ origin' = IF caller = <<>> /\ ~LogIDPanics(en) /\ ~RegexPanics(f, en)
                        THEN errorOrigin(f, OwnFrames \o stack) ELSE <<>>
           /\ out' = res
           /\ e' = [en EXCEPT !.Data = SourceAfter(en, res)]
    /\ stk' = stack
    /\ fpc' = "logged"
    /\ UNCHANGED <<f, keyvals, again, reqs>>
    /\ UNCHANGED hvars

\* the formatter's ToEntry runs again on the record it has assembled, from the same
\* call stack and at the same time
LogAgain ==
    /\ fpc = "logged"
    /\ ~out.panic
    /\ LET res == ToEntry(f, e, stk, Now)
       IN  /\ again' = res
           /\ e' = [e EXCEPT !.Data = SourceAfter(e, res)]
    /\ fpc' = "relogged"
    /\ UNCHANGED <<f, stk, origin, out, keyvals, reqs>>
    /\ UNCHANGED hvars

NextFormatter ==
    \/ \E k \in Keys : \E v \in FieldValues(k) : WithField(k, v)
    \/ \E level \in Levels, msg \in Messages, caller \in Callers, stack \in CallStacks :
          Log(level, msg, caller, stack)
    \/ LogAgain

SpecFormatter == InitFormatter /\ [][NextFormatter]_vars

----------------------------------------------------------------------------
(* Claims about ToEntry, checked under SpecFormatter *)

\* ToEntry ran and returned an entry
Logged == fpc = "logged" /\ ~out.panic

ErrorLevels == {"error", "fatal", "panic"}
BelowErrorLevels == {"warning", "info", "debug", "trace"}

\* the record's 'stackTrace' field is appended to the message
StackInMessage ==
    "stackTrace" \in DOMAIN e.Data /\ f.StackStyle \in {TraceInMessage, TraceInBoth}

\* the message-parts sequence of ToEntry is non-empty, in terms of the record
HasMessageParts ==
    e.Message # <<>> \/ "error" \in DOMAIN e.Data \/ StackInMessage

\* C1: for a record below ERROR the entry has no serviceContext and no
\* context.reportLocation, whatever fields the record carries.
C1_NoErrorContextBelowError ==
    (Logged /\ e.Level \in BelowErrorLevels)
        => (out.ee.ServiceContext = <<>> /\ out.ee.Context.ReportLocation = <<>>)

C1_Witness ==
    /\ Logged /\ e.Level = "warning"
    /\ DOMAIN e.Data = {"error", "stackTrace"}
    /\ out.ee.ServiceContext = <<>>

\* C2 as stated: for an error severity the tag is set iff service and version are
\* both non-empty and (stack_trace is non-empty or a source location is there).
C2_TagIffServiceAndVersion ==
    (Logged /\ e.Level \in ErrorLevels)
        => ( out.ee.Type = reportedErrorEventType
               <=> ( /\ f.Service # <<>>
                     /\ f.Version # <<>>
                     /\ (out.ee.StackTrace # <<>> \/ out.ee.SourceLocation # <<>>) ) )

\* C2, amended: for an error severity the tag is set iff the service name is
\* non-empty, the message parts are non-empty (a record message, an 'error' field,
\* or a 'stackTrace' field placed in the message) and (stack_trace is non-empty or
\* the entry has a source location); the version plays no part.
C2_TagIffServiceAndMessage ==
    (Logged /\ e.Level \in ErrorLevels)
        => ( out.ee.Type = reportedErrorEventType
               <=> ( /\ f.Service # <<>>
                     /\ HasMessageParts
                     /\ (out.ee.StackTrace # <<>> \/ out.ee.SourceLocation # <<>>) ) )

C2_Witness ==
    /\ Logged /\ e.Level = "fatal"
    /\ f.Service # <<>> /\ f.Version = <<>>
    /\ out.ee.Type = reportedErrorEventType

\* errorOrigin found a frame, or logrus supplied the caller
LocationResolved == e.Caller # <<>> \/ origin # <<>>

\* C3: the tag is set exactly when the severity is an error severity, the message
\* parts are non-empty, the service is non-empty and (stack_trace is non-empty or
\* a source location was resolved); an entry whose stack resolution found no frame
\* and which has no stack trace never carries the tag.
C3_TagOnlyWithResolvedLocation ==
    Logged
        => ( out.ee.Type = reportedErrorEventType
               <=> ( /\ e.Level \in ErrorLevels
                     /\ HasMessageParts
                     /\ f.Service # <<>>
                     /\ (out.ee.StackTrace # <<>> \/ LocationResolved) ) )

\* the message ToEntry builds from the record message and the error's rendering
MessageWithError ==
    IF e.Message = <<>> THEN e.Data["error"].s ELSE e.Message \o NL \o e.Data["error"].s

\* C4 as stated: with an 'error' field an error-severity record's message is the
\* record message, a newline and the error's rendering; below ERROR the rendering
\* is not appended.
C4_MessageIsMessageAndError ==
    (Logged /\ "error" \in DOMAIN e.Data)
        => IF e.Level \in ErrorLevels
           THEN out.ee.Message = MessageWithError
           ELSE out.ee.Message = e.Message

\* C4, amended: the same, except that a 'stackTrace' field of the record placed in
\* the message (TraceInMessage, TraceInBoth) follows after another newline.
C4_MessageIsMessageErrorAndStack ==
    (Logged /\ "error" \in DOMAIN e.Data)
        => IF e.Level \in ErrorLevels
           THEN out.ee.Message =
                   IF StackInMessage
                   THEN MessageWithError \o NL \o e.Data["stackTrace"].s
                   ELSE MessageWithError
           ELSE out.ee.Message = e.Message

C4_Witness ==
    /\ Logged /\ e.Level = "error" /\ e.Message # <<>>
    /\ "error" \in DOMAIN e.Data /\ e.Data["error"].t = "string"
    /\ out.ee.Message = e.Message \o NL \o e.Data["error"].s

C7_PromotedKeyLeavesData ==
    Logged =>
        /\ (out.ee.Context.User # <<>> => "user" \notin DOMAIN out.ee.Context.Data)
        /\ (out.ee.Context.HTTPRequest # <<>> \/ out.ee.HTTPRequest # <<>>
               => "httpRequest" \notin DOMAIN out.ee.Context.Data)
        /\ (out.ee.Context.GRPCRequest # <<>> => "grpcRequest" \notin DOMAIN out.ee.Context.Data)
        /\ (out.ee.Context.GRPCStatus # <<>> => "grpcStatus" \notin DOMAIN out.ee.Context.Data)
        /\ (out.ee.Context.PubSubRequest # <<>> => "pubSubRequest" \notin DOMAIN out.ee.Context.Data)

LowerHex == {"0", "1", "2", "3", "4", "5", "6", "7", "8", "9", "a", "b", "c", "d", "e", "f"}

\* 105445aa7843bc8bf206b12000100000
TestTraceHex ==
    << "1", "0", "5", "4", "4", "5", "a", "a", "7", "8", "4", "3", "b", "c", "8", "b",
       "f", "2", "0", "6", "b", "1", "2", "0", "0", "0", "1", "0", "0", "0", "0", "0" >>

\* the record carries a valid span context
ValidSpan ==
    /\ "span_context" \in DOMAIN e.Data
    /\ e.Data["span_context"].t = "SpanContext"
    /\ e.Data["span_context"].tid # ZeroSpanID \o ZeroSpanID
    /\ e.Data["span_context"].sid # ZeroSpanID

\* C10: with a valid span context the trace is projects/{ProjectID}/traces/{trace
\* id in lowercase hex}, spanId is the 16 lowercase hex digits of the 8 span-id
\* bytes (0000000000000001 for a span id ending in 0x01) and trace_sampled is the
\* span context's sampled flag.
C10_TraceAndSpanOfSpanContext ==
    (Logged /\ ValidSpan)
        => /\ out.ee.Trace = <<"projects/">> \o f.ProjectID \o <<"/traces/">> \o TestTraceHex
           /\ Len(out.ee.SpanID) = 16
           /\ \A i \in 1..Len(out.ee.SpanID) : out.ee.SpanID[i] \in LowerHex
           /\ (e.Data["span_context"].sid = TestSpanID
                 => out.ee.SpanID = <<"0", "0", "0", "0", "0", "0", "0", "0",
                                      "0", "0", "0", "0", "0", "0", "0", "1">>)
           /\ (e.Data["span_context"].sid = OtherSpanID
                 => out.ee.SpanID = <<"0", "0", "f", "f", "0", "0", "0", "0",
                                      "0", "0", "0", "0", "a", "b", "1", "0">>)
           /\ out.ee.TraceSampled = e.Data["span_context"].sampled

C10_Witness ==
    /\ Logged /\ ValidSpan /\ e.Data["span_context"].sid = TestSpanID
    /\ f.ProjectID = TestProject
    /\ out.ee.TraceSampled
    /\ out.ee.SpanID[16] = "1"

\* the trace ToEntry falls back to
GlobalTrace == <<"projects/">> \o f.ProjectID \o <<"/traces/">> \o f.GlobalTraceID

C12_ToEntryNeverFails ==
    fpc = "logged" =>
        /\ ~out.panic
        /\ \A k \in {"logID", "user", "httpRequest"} :
              (k \in DOMAIN e.Data /\ e.Data[k].t \in {"int", "map"})
                 => k \in DOMAIN out.ee.Context.Data

\* the severity of each logrus level
SeverityOf ==
    [ debug |-> "DEBUG", info |-> "INFO", warning |-> "WARNING", error |-> "ERROR",
      fatal |-> "CRITICAL", panic |-> "ALERT", trace |-> "" ]

\* C13: Debug->DEBUG, Info->INFO, Warn->WARNING, Error->ERROR, Fatal->CRITICAL,
\* Panic->ALERT, every other level (Trace) gives the empty severity, and such a
\* record is treated as one below ERROR.
C13_SeverityMapping ==
    Logged =>
        /\ out.ee.Severity = SeverityOf[e.Level]
        /\ e.Level = "trace" =>
              /\ out.ee.ServiceContext = <<>>
              /\ out.ee.Context.ReportLocation = <<>>
              /\ out.ee.Type = ""
              /\ ("error" \in DOMAIN e.Data => out.ee.Message = e.Message)

C13_Witness ==
    /\ Logged /\ e.Level = "trace"
    /\ "error" \in DOMAIN e.Data /\ f.Service # <<>>
    /\ out.ee.Severity = ""

\* the source location made of a frame
LocationOf(c) == << [FilePath |-> c.file, LineNumber |-> c.line, FunctionName |-> c.fn] >>

\* C18: with e.Caller set the source location is the caller frame, whatever the
\* skip list and the pattern are (the resolver does not run, so a pattern that
\* does not compile does no harm); without e.Caller it is the resolver's result.
C18_CallerBeforeResolver ==
    /\ (fpc = "logged" /\ e.Caller # <<>> /\ ~LogIDPanics(e)) =>
          /\ ~out.panic
          /\ out.ee.SourceLocation = LocationOf(e.Caller[1])
    /\ (Logged /\ e.Caller = <<>> /\ origin # <<>>) =>
          out.ee.SourceLocation = LocationOf(origin[1])

C18_Witness ==
    /\ Logged /\ e.Caller = <<AppFrame>>
    /\ f.RegexSkip = <<"Handler">>
    /\ stk[2] = WrapperFrame
    /\ out.ee.SourceLocation = LocationOf(AppFrame)

\* C19: when every frame is excluded, errorOrigin returns the zero call and the
\* entry is produced without its source location and, for an error severity,
\* without its report location.
C19_NoLocationWhenStackExhausted ==
    (fpc = "logged" /\ e.Caller = <<>> /\ origin = <<>> /\ ~LogIDPanics(e) /\ ~RegexPanics(f, e)) =>
        /\ ~out.panic
        /\ out.ee.SourceLocation = <<>>
        /\ out.ee.Context.ReportLocation = <<>>

\* the runtime types ToEntry promotes under each key
PromotedTypes ==
    [ httpRequest |-> {"*HTTPRequest", "requestDetails"}, grpcRequest |-> {"*GRPCRequest"},
      grpcStatus |-> {"RawMessage"}, pubSubRequest |-> {"map"} ]

\* the dedicated slots of the entry that key k is promoted to
Slots(k) ==
    CASE k = "httpRequest" -> out.ee.Context.HTTPRequest \o out.ee.HTTPRequest
      [] k = "grpcRequest" -> out.ee.Context.GRPCRequest
      [] k = "grpcStatus" -> out.ee.Context.GRPCStatus
      [] k = "pubSubRequest" -> out.ee.Context.PubSubRequest

\* C20: a value under httpRequest, grpcRequest, grpcStatus or pubSubRequest that
\* has not the expected runtime type is not promoted: the slot stays empty, the
\* value stays as it is in context.data, and nothing is raised.
C20_MistypedNotPromoted ==
    \A k \in DOMAIN PromotedTypes :
        (fpc = "logged" /\ ~LogIDPanics(e) /\ ~RegexPanics(f, e)
            /\ k \in DOMAIN e.Data /\ e.Data[k].t \notin PromotedTypes[k]) =>
            /\ ~out.panic
            /\ Slots(k) = <<>>
            /\ k \in DOMAIN out.ee.Context.Data
            /\ out.ee.Context.Data[k] = e.Data[k]

C20_Witness ==
    /\ Logged /\ e.Level = "error"
    /\ DOMAIN e.Data = {"httpRequest", "foo"}
    /\ e.Data["httpRequest"].t = "map"
    /\ out.ee.Context.Data = e.Data

\* the message parts ToEntry has collected before it looks at 'stackTrace', for
\* an error severity: the record message if not empty, the rendering of 'error'
PartsBeforeStack ==
    (IF e.Message # <<>> THEN <<e.Message>> ELSE <<>>)
    \o (IF "error" \in DOMAIN e.Data THEN <<e.Data["error"].s>> ELSE <<>>)

\* those parts followed by the record's 'stackTrace', joined
PartsWithStack == Join(Append(PartsBeforeStack, e.Data["stackTrace"].s), NL)

\* C21: for an error-severity record with a 'stackTrace' field: under
\* TraceInMessage the stack trace is appended to the message and stack_trace is
\* empty; under TraceInPayload it is in stack_trace and not in the message; under
\* TraceInBoth both; the key is removed from context.data under every policy, and
\* the field, not a stack carried by the error, determines stack_trace.
C21_StackTracePlacement ==
    (Logged /\ e.Level \in ErrorLevels /\ "stackTrace" \in DOMAIN e.Data) =>
        /\ "stackTrace" \notin DOMAIN out.ee.Context.Data
        /\ f.StackStyle = TraceInMessage =>
               out.ee.Message = PartsWithStack /\ out.ee.StackTrace = <<>>
        /\ f.StackStyle = TraceInPayload =>
               out.ee.Message = Join(PartsBeforeStack, NL) /\ out.ee.StackTrace = PartsWithStack
        /\ f.StackStyle = TraceInBoth =>
               out.ee.Message = PartsWithStack /\ out.ee.StackTrace = PartsWithStack

\* an error with its own stack beside a 'stackTrace' field, placed in the payload
C21_Witness ==
    /\ Logged /\ e.Level = "error"
    /\ "stackTrace" \in DOMAIN e.Data /\ e.Data["stackTrace"].s # <<>>
    /\ "error" \in DOMAIN e.Data /\ e.Data["error"].t = "stackError"
    /\ f.StackStyle = TraceInPayload
    /\ out.ee.StackTrace = PartsWithStack

\* what replaceErrors puts into context.data for the field value v
Rendering(v) == IF IsError(v) THEN V("string", v.s) ELSE v

\* the keys ToEntry may move out of context.data
SpecialKeys ==
    {"span_context", "stackTrace", "user", "httpRequest", "grpcRequest", "grpcStatus",
     "pubSubRequest"}

C27_SpanContextAlwaysRemoved ==
    (Logged /\ "span_context" \in DOMAIN e.Data) =>
        /\ "span_context" \notin DOMAIN out.ee.Context.Data
        /\ ~ValidSpan =>
               /\ out.ee.Trace = GlobalTrace
               /\ out.ee.SpanID = <<>>
               /\ out.ee.TraceSampled = FALSE

\* a span context with a zero span id, sampled
C27_Witness ==
    /\ Logged
    /\ "span_context" \in DOMAIN e.Data
    /\ e.Data["span_context"].t = "SpanContext" /\ e.Data["span_context"].sampled
    /\ ~ValidSpan
    /\ "span_context" \notin DOMAIN out.ee.Context.Data
    /\ out.ee.SpanID = <<>> /\ ~out.ee.TraceSampled

\* ToEntry ran twice on the same record
Relogged == fpc = "relogged"

----------------------------------------------------------------------------
(* errorOrigin as a state machine: calls build a stack, then the formatter runs *)

ModulePkg == P("example.com", "shop", "api")
\* a dependency vendored below the application's module
VendoredLibPkg == ModulePkg \o VendorSep \o P("lib", "net", "retry")
\* logrus vendored below the application's module
VendoredLogrusPkg == ModulePkg \o VendorSep \o LogrusPkg

MainFrame == Frame(ModulePkg, <<"main">>, ModulePkg \o <<"/", "main.go">>, 12)
VendoredLibFrame == Frame(VendoredLibPkg, <<"Do">>, VendoredLibPkg \o <<"/", "retry.go">>, 44)
VendoredLogrusFrame ==
    Frame(VendoredLogrusPkg, <<"(*Entry).Log">>, VendoredLogrusPkg \o <<"/", "entry.go">>, 241)

StackFrames ==
    { AppFrame, MainFrame, VendoredLibFrame, VendoredLogrusFrame, LogrusFrame, WrapperFrame }

OriginOptionLists ==
    { <<>>,
      << WithStackSkip(<<"example.com">>) >>,
      << WithStackSkip(P("lib", "net", "retry")) >>,
      << WithStackSkip(<<"app">>), WithStackSkip(<<"shop">>) >>,
      << WithRegexSkip(<<"Handler">>) >>,
      << WithRegexSkip(<<"Do">>), WithStackSkip(<<"svc">>) >>,
      << WithRegexSkip(BadRegex) >> }

InitOrigin ==
    /\ f \in { NewFormatter(o, id) : o \in OriginOptionLists, id \in GeneratedIDs }
    /\ e = NewEntry
    /\ stk = <<RuntimeFrame>>
    /\ origin = <<>>
    /\ out = [panic |-> FALSE, ee |-> EmptyEntry]
    /\ fpc = "build"
    /\ reqs = <<>>
    /\ again = [panic |-> FALSE, ee |-> EmptyEntry]
    /\ keyvals = <<>>
    /\ NoRequest

\* a function call puts its frame on the goroutine's stack
Call(c) ==
    /\ fpc = "build"
    /\ Len(stk) <= MaxStack
    /\ stk' = <<c>> \o stk
    /\ UNCHANGED <<f, e, origin, out, fpc, keyvals, again, reqs>>
    /\ UNCHANGED hvars

\* ToEntry calls f.errorOrigin() (line 259); regexp.MustCompile may panic (line 173)
CallErrorOrigin ==
    /\ fpc = "build"
    /\ IF f.RegexSkip = BadRegex
       THEN /\ fpc' = "panicked"
            /\ UNCHANGED origin
       ELSE /\ fpc' = "resolved"
            /\ origin' = errorOrigin(f, OwnFrames \o stk)
    /\ UNCHANGED <<f, e, stk, out, keyvals, again, reqs>>
    /\ UNCHANGED hvars

NextOrigin ==
    \/ \E c \in StackFrames : Call(c)
    \/ CallErrorOrigin

SpecOrigin == InitOrigin /\ [][NextOrigin]_vars

----------------------------------------------------------------------------
(* Claims about errorOrigin, checked under SpecOrigin *)

\* the stack errorOrigin walked, its own frame first
Walked == OwnFrames \o stk

\* some skip-list entry occurs in the path
HasSkipEntry(path) == \E i \in 1..Len(f.StackSkip) : Contains(path, f.StackSkip[i])

\* the exclusion pattern is set and occurs in the frame's function name
MatchesPattern(c) == f.RegexSkip # <<>> /\ Contains(c.pkg \o <<".">> \o c.fn, f.RegexSkip)

\* the part of the path behind its first vendor marker (the path if it has none)
BehindVendor(path) ==
    LET marks == { i \in 1..Len(path) : i + 2 <= Len(path) /\ SubSeq(path, i, i + 2) = VendorSep }
    IN  IF marks = {} THEN path
        ELSE LET first == CHOOSE i \in marks : \A j \in marks : i <= j
             IN  SubSeq(path, first + 3, Len(path))

\* a frame excluded because an entry occurs anywhere in its package path
ExcludedAnywhere(c) == HasSkipEntry(c.pkg) \/ MatchesPattern(c)

\* a frame excluded because an entry occurs in its package path behind the vendor marker
ExcludedBehindVendor(c) == HasSkipEntry(BehindVendor(c.pkg)) \/ MatchesPattern(c)

\* C6 as stated: errorOrigin returns the nearest frame that is not excluded and
\* never a frame whose path contains a skip-list entry anywhere, a prefix in front
\* of a vendor marker included.
C6_NeverSkipEntryAnywhere ==
    fpc = "resolved" =>
        /\ origin # <<>> => ~HasSkipEntry(origin[1].pkg)
        /\ IF \A i \in 1..Len(Walked) : ExcludedAnywhere(Walked[i])
           THEN origin = <<>>
           ELSE \E i \in 1..Len(Walked) :
                   /\ origin = <<Walked[i]>>
                   /\ ~ExcludedAnywhere(Walked[i])
                   /\ \A j \in 1..(i - 1) : ExcludedAnywhere(Walked[j])

\* C6, amended: errorOrigin returns the nearest frame that is not excluded, where
\* a frame is excluded when a skip-list entry occurs in its package path behind the
\* first vendor marker (in the whole path if it has none) or its function name
\* matches the pattern; it never returns a frame with a skip-list entry in that
\* part of the path, and returns the zero call when every frame is excluded.
C6_NeverSkipEntryBehindVendor ==
    fpc = "resolved" =>
        /\ origin # <<>> => ~HasSkipEntry(BehindVendor(origin[1].pkg))
        /\ IF \A i \in 1..Len(Walked) : ExcludedBehindVendor(Walked[i])
           THEN origin = <<>>
           ELSE \E i \in 1..Len(Walked) :
                   /\ origin = <<Walked[i]>>
                   /\ ~ExcludedBehindVendor(Walked[i])
                   /\ \A j \in 1..(i - 1) : ExcludedBehindVendor(Walked[j])

\* a vendored frame is returned although an entry occurs in front of its vendor
\* marker, behind nearer frames that were skipped
C6_Witness ==
    /\ fpc = "resolved"
    /\ origin = <<VendoredLibFrame>>
    /\ HasSkipEntry(origin[1].pkg)
    /\ Len(stk) >= 3 /\ stk[1] = VendoredLogrusFrame /\ stk[2] = MainFrame

----------------------------------------------------------------------------
(* One HTTP request through LoggingMiddleware, RecoveryMiddleware and a handler *)

Paths == { <<"/", "health">>, <<"/", "health", "z">>, <<"/", "api", "/", "health">> }
UserAgents ==
    { <<"curl/7.79">>, <<"kube-probe/", "1.21">>, <<"Envoy/HC">>,
      <<"Envoy/HC", " ", "kube-probe/", "1.21">> }
ForwardedFors ==
    { <<>>,
      <<"203.0.113.7">>,
      <<"198.51.100.2", ",", " ", "10.0.0.9">>,
      <<"203.0.113.7", ",", " ", "198.51.100.2", ",", "10.0.0.9">> }
RemoteAddrs == { <<"192.0.2.1", ":", "4711">>, <<"@">> }

Requests ==
    { [Method |-> <<"GET">>, Path |-> p, UserAgent |-> ua, XForwardedFor |-> fwd, RemoteAddr |-> ra] :
        p \in Paths, ua \in UserAgents, fwd \in ForwardedFors, ra \in RemoteAddrs }

MiddlewareOptionLists ==
    { <<>>,
      << WithHTTPFilter("AlwaysTrue") >>,
      << WithHTTPFilter("AlwaysFalse") >>,
      << WithRPCFilter("AlwaysTrue"), WithErrorHandler("Handled") >> }

\* what a handler panics with: a string, an error, a value of another type, nil
PanicValues ==
    { V("string", <<"surprise panic attack!">>), V("error", <<"boom">>), V("int", <<"42">>),
      V("nil", <<>>) }

\* uuid.NewV4().String(); the zero UUID when the generator fails
RequestIDs == { <<"9b2f4c1e", "-", "uuid">>, <<"00000000-0000-0000-0000-000000000000">> }

InitHTTP ==
    /\ f = NewFormatter(<<>>, <<"7f", "3c", "uuid">>)
    /\ e = NewEntry
    /\ stk = <<>>
    /\ origin = <<>>
    /\ out = [panic |-> FALSE, ee |-> EmptyEntry]
    /\ fpc = "build"
    /\ reqs = <<>>
    /\ again = [panic |-> FALSE, ee |-> EmptyEntry]
    /\ keyvals = <<>>
    /\ opts \in { evaluateMiddlewareOptions(mos) : mos \in MiddlewareOptionLists }
    /\ recovery \in BOOLEAN
    /\ r \in Requests
    /\ ctx = EmptyMap
    /\ request = <<>>
    /\ w = NewResponseWriter
    /\ logs = <<>>
    /\ hpc = "idle"
    /\ pv = <<>>
    /\ steps = 0
    /\ call = NoCall
    /\ hooks = <<>>

\* LoggingMiddleware up to the call of the handler (lines 52-66)
ServeHTTP ==
    /\ hpc = "idle"
    /\ request' = << [ RequestMethod |-> r.Method, RequestURL |-> r.Path,
                       RemoteIP |-> getRemoteIP(r), Referer |-> <<>>,
                       UserAgent |-> r.UserAgent, RequestSize |-> <<"0">>,
                       Protocol |-> <<"HTTP/1.1">>, Status |-> <<>>, Latency |-> <<>>,
                       ResponseSize |-> <<>> ] >>
    /\ ctx' = Put(Put(ctx, "forwardIP", V("string", r.XForwardedFor)),
                  "httpRequest", V("*HTTPRequest", <<>>))
    /\ hpc' = "handler"
    /\ UNCHANGED <<opts, recovery, r, w, logs, pv, steps, call, hooks>>
    /\ UNCHANGED fvars

\* the handler calls w.WriteHeader(code)
HandlerWriteHeader(code) ==
    /\ hpc = "handler"
    /\ steps < MaxHandlerSteps
    /\ steps' = steps + 1
    /\ w' = WriteHeader(w, code)
    /\ UNCHANGED <<opts, recovery, r, ctx, request, logs, hpc, pv, call, hooks>>
    /\ UNCHANGED fvars

\* the handler calls w.Write(b)
HandlerWrite(b) ==
    /\ hpc = "handler"
    /\ steps < MaxHandlerSteps
    /\ steps' = steps + 1
    /\ w' = Write(w, b)
    /\ UNCHANGED <<opts, recovery, r, ctx, request, logs, hpc, pv, call, hooks>>
    /\ UNCHANGED fvars

\* the handler calls w.Header().Set("Content-Type", v)
HandlerSetContentType(v) ==
    /\ hpc = "handler"
    /\ steps < MaxHandlerSteps
    /\ steps' = steps + 1
    /\ w' = SetContentType(w, v)
    /\ UNCHANGED <<opts, recovery, r, ctx, request, logs, hpc, pv, call, hooks>>
    /\ UNCHANGED fvars

\* the handler calls ctxlogrus.AddFields(ctx, logrus.Fields{"testField": "testValue"})
HandlerAddFields ==
    /\ hpc = "handler"
    /\ steps < MaxHandlerSteps
    /\ steps' = steps + 1
    /\ ctx' = Put(ctx, "testField", V("string", <<"testValue">>))
    /\ UNCHANGED <<opts, recovery, r, request, w, logs, hpc, pv, call, hooks>>
    /\ UNCHANGED fvars

\* the handler calls ctxlogrus.Extract(ctx).Info(...)
HandlerLog ==
    /\ hpc = "handler"
    /\ steps < MaxHandlerSteps
    /\ steps' = steps + 1
    /\ logs' = Append(logs, Record("info", <<"served from http request">>, ctx, request[1]))
    /\ UNCHANGED <<opts, recovery, r, ctx, request, w, hpc, pv, call, hooks>>
    /\ UNCHANGED fvars

\* the handler panics with v
HandlerPanic(v) ==
    /\ hpc = "handler"
    /\ pv' = <<v>>
    /\ hpc' = "panicking"
    /\ UNCHANGED <<opts, recovery, r, ctx, request, w, logs, steps, call, hooks>>
    /\ UNCHANGED fvars

\* the handler returns
HandlerReturn ==
    /\ hpc = "handler"
    /\ hpc' = "returned"
    /\ UNCHANGED <<opts, recovery, r, ctx, request, w, logs, pv, steps, call, hooks>>
    /\ UNCHANGED fvars

\* everything recover() may return in this environment
RecoveredValues ==
    UNION { Recovered(v) : v \in PanicValues }

\* how the two versions of RecoveryMiddleware in the repository report a failed
\* w.Write: entry.Warn (unnamed/part_004:271) or entry.Fatal (middleware.go:239)
WriteErrorCalls == {"Warn", "Fatal"}

\* the deferred function of RecoveryMiddleware (lines 239-275) with errWithStack;
\* e is what recover() returned, writeOk is whether w.Write(jsonStatus)
\* succeeded and onWriteError is the version's call for a failed write.
\* entry.Fatal logs at FATAL level and then calls logger.Exit(1), which ends the
\* process with the logger's default ExitFunc.  protojson does not fail on the
\* status errWithStack builds, so the merr branch is not taken.
Recover(reqID, writeOk, rv, onWriteError) ==
    /\ hpc = "panicking"
    /\ recovery
    /\ rv \in Recovered(pv[1])
    /\ IF rv.t = "nil"
       THEN UNCHANGED <<w, logs>>
       ELSE LET err == PanicError(rv)
                w1 == WriteHeader(SetContentType(w, <<"application/json">>),
                                  StatusInternalServerError)
                logged == Append(logs, PanicRecord(ctx, request[1], err))
            IN  IF writeOk
                THEN /\ w' = Write(w1, StatusJSON(reqID))
                     /\ logs' = logged
                ELSE /\ w' = w1
                     /\ logs' = Append(logged,
                                  IF onWriteError = "Warn"
                                  THEN Record("warning",
                                         <<"error writing json server_error to ResponseWriter">>,
                                         Put(ctx, "error", V("error", <<"write: broken pipe">>)),
                                         request[1])
                                  ELSE Record("fatal",
                                         <<"error encoding json server_error to ResponseWriter">>,
                                         Put(ctx, "error", V("error", <<"write: broken pipe">>)),
                                         request[1]))
    /\ hpc' = IF rv.t # "nil" /\ ~writeOk /\ onWriteError = "Fatal" THEN "exited" ELSE "returned"
    /\ UNCHANGED <<opts, recovery, r, ctx, request, pv, steps, call, hooks>>
    /\ UNCHANGED fvars

\* without RecoveryMiddleware the panic unwinds through CaptureMetrics and
\* LoggingMiddleware to the server
Unwind ==
    /\ hpc = "panicking"
    /\ ~recovery
    /\ hpc' = "crashed"
    /\ UNCHANGED <<opts, recovery, r, ctx, request, w, logs, pv, steps, call, hooks>>
    /\ UNCHANGED fvars

\* LoggingMiddleware after the handler returned (lines 68-76)
Finish ==
    /\ hpc = "returned"
    /\ LET rq == [request[1] EXCEPT !.Status = <<ToString(MetricsCode(w))>>,
                                    !.Latency = <<"0.00042s">>,
                                    !.ResponseSize = <<ToString(MetricsWritten(w))>>]
       IN  /\ request' = <<rq>>
           /\ logs' = IF filterHTTP(opts, r) THEN Append(logs, SummaryRecord(ctx, rq, r)) ELSE logs
    /\ hpc' = "done"
    /\ UNCHANGED <<opts, recovery, r, ctx, w, pv, steps, call, hooks>>
    /\ UNCHANGED fvars

NextHTTP ==
    \/ ServeHTTP
    \/ \E code \in {StatusOK, StatusNotFound} : HandlerWriteHeader(code)
    \/ HandlerWrite(<<"partial">>)
    \/ HandlerSetContentType(<<"text/plain">>)
    \/ HandlerAddFields
    \/ HandlerLog
    \/ \E v \in PanicValues : HandlerPanic(v)
    \/ HandlerReturn
    \/ \E reqID \in RequestIDs, writeOk \in BOOLEAN, rv \in RecoveredValues,
          onWriteError \in WriteErrorCalls :
          Recover(reqID, writeOk, rv, onWriteError)
    \/ Unwind
    \/ Finish

SpecHTTP == InitHTTP /\ [][NextHTTP]_vars

----------------------------------------------------------------------------
(* Claims about the HTTP middleware, checked under SpecHTTP *)

\* the records of a kind among the emitted ones
ErrorRecordsWithStack ==
    { i \in 1..Len(logs) :
        /\ logs[i].Level = "error"
        /\ "stackTrace" \in DOMAIN logs[i].Data
        /\ logs[i].Data["stackTrace"].s # <<>> }

SummaryRecords ==
    { i \in 1..Len(logs) :
        /\ "httpRequest" \in DOMAIN logs[i].Data
        /\ logs[i].Data["httpRequest"].t = "requestDetails" }

\* the response body carries a request id that is not empty
BodyHasRequestID ==
    \E i \in 1..(Len(w.body) - 2) :
        /\ w.body[i] = "\",\"details\":[{\"@type\":\"type.googleapis.com/google.rpc.RequestInfo\",\"requestId\":\""
        /\ w.body[i + 1] # "\",\"servingData\":\"\"}]}"

\* the handler panicked with a string and RecoveryMiddleware has run
RecoveredString ==
    /\ recovery
    /\ pv # <<>> /\ pv[1].t = "string"
    /\ hpc \in {"returned", "done"}

\* C8: when a handler inside RecoveryMiddleware inside LoggingMiddleware panics
\* with a string, at any point of its execution, exactly one ERROR record with a
\* non-empty stack trace is emitted and the response has status 500, Content-Type
\* application/json and a body with a non-empty request id.
C8_PanicYields500WithRequestID ==
    RecoveredString =>
        /\ Cardinality(ErrorRecordsWithStack) = 1
        /\ w.status = StatusInternalServerError
        /\ w.sentContentType = <<"application/json">>
        /\ BodyHasRequestID

\* the request was served to its end: LoggingMiddleware returned or the panic left it
Served == hpc \in {"done", "crashed"}

\* C9 as stated: with default options a request whose path begins with /health
\* yields no summary record; with WithHTTPFilter(always true) it yields exactly one.
C9_HealthFilteredUnlessOverridden ==
    (Served /\ HasPrefix(r.Path, <<"/", "health">>)) =>
        /\ opts = defaultLogOptions => SummaryRecords = {}
        /\ opts.filterHTTP = "AlwaysTrue" => Cardinality(SummaryRecords) = 1

\* C9, amended: with default options a request whose path begins with /health
\* yields no summary record; with WithHTTPFilter(always true) it yields exactly one
\* once the handler has returned or RecoveryMiddleware has recovered its panic, and
\* none when the handler's panic leaves LoggingMiddleware unrecovered.
C9_HealthFilteredUnlessOverriddenAndReturned ==
    (Served /\ HasPrefix(r.Path, <<"/", "health">>)) =>
        /\ opts = defaultLogOptions => SummaryRecords = {}
        /\ opts.filterHTTP = "AlwaysTrue" =>
              Cardinality(SummaryRecords) = (IF hpc = "done" THEN 1 ELSE 0)

C9_Witness ==
    /\ hpc = "done"
    /\ r.Path = <<"/", "health", "z">>
    /\ r.UserAgent = <<"curl/7.79">>
    /\ opts.filterHTTP = "AlwaysTrue"
    /\ Cardinality(SummaryRecords) = 1
    /\ Len(logs) = 1

\* the comma-separated entries of the request's X-Forwarded-For header
ForwardedEntries == Split(r.XForwardedFor, ",")

\* the remote IP LoggingMiddleware put into the request record
RemoteIPOf == request[1].RemoteIP

\* C22: getRemoteIP returns the second-from-last entry of X-Forwarded-For,
\* trimmed, when the header has at least two entries; otherwise the host part of
\* the peer address, and 0.0.0.0 when that address has no host and port; a header
\* of zero or one entry plays no part.
C22_RemoteIPPrecedence ==
    (request # <<>> /\ hpc # "idle") =>
        IF Len(ForwardedEntries) >= 2
        THEN RemoteIPOf = TrimSpace(ForwardedEntries[Len(ForwardedEntries) - 1])
        ELSE IF r.RemoteAddr = <<"192.0.2.1", ":", "4711">>
        THEN RemoteIPOf = <<"192.0.2.1">>
        ELSE RemoteIPOf = <<"0.0.0.0">>

\* a header of two entries: the first one is the remote IP
C22_Witness ==
    /\ request # <<>> /\ hpc = "done"
    /\ Len(ForwardedEntries) = 2
    /\ RemoteIPOf = <<"198.51.100.2">>

\* the records about a failed write of the response body after a recovery
WriteFailureRecords ==
    { i \in 1..Len(logs) :
        logs[i].Message \in { <<"error writing json server_error to ResponseWriter">>,
                              <<"error encoding json server_error to ResponseWriter">> } }

\* C23: when writing the response body fails after RecoveryMiddleware recovered
\* a panic, the failure is logged at WARN or ERROR level, the write is not
\* retried, and the middleware returns normally: the process goes on serving.
C23_WriteFailureLoggedAndReturned ==
    /\ hpc # "exited"
    /\ \A i \in WriteFailureRecords :
           /\ logs[i].Level \in {"warning", "error"}
           /\ hpc \in {"returned", "done"}
           /\ ~BodyHasRequestID
    /\ Cardinality(WriteFailureRecords) <= 1

----------------------------------------------------------------------------
(* The gRPC interceptors as a state machine: one RPC through the logging   *)
(* interceptor, chained at the very top, and the recovery interceptor,     *)
(* when it is installed, inside it                                         *)

FullMethods ==
    { <<"/grpc.health", ".v1.Health/Check">>,
      <<"/grpc.reflection", ".v1alpha.ServerReflection/ServerReflectionInfo">>,
      <<"/mwitkow.testproto.TestService/Ping">> }

RPCOptionLists ==
    { <<>>,
      << WithErrorHandler("Handled") >>,
      << WithRPCFilter("AlwaysTrue") >>,
      << WithRPCFilter("AlwaysTrue"), WithErrorHandler("Handled") >>,
      << WithRPCFilter("AlwaysFalse") >> }

\* what a handler returns as its error: nil, a status error, a plain error
HandlerErrors ==
    { <<>>,
      << StatusError(NotFound, <<"not found">>, <<>>) >>,
      << StatusError(Internal, <<"db down">>, <<>>) >>,
      << StatusError(Internal, <<"bad row ">> \o InvalidUTF8, <<>>) >>,
      << V("error", <<"boom">>) >> }

\* what a unary handler returns as its response
Responses == { <<>>, <<"PingResponse">> }

InitRPC ==
    /\ f = NewFormatter(<<>>, <<"7f", "3c", "uuid">>)
    /\ e = NewEntry
    /\ stk = <<>>
    /\ origin = <<>>
    /\ out = [panic |-> FALSE, ee |-> EmptyEntry]
    /\ fpc = "build"
    /\ reqs = <<>>
    /\ again = [panic |-> FALSE, ee |-> EmptyEntry]
    /\ keyvals = <<>>
    /\ opts \in { evaluateMiddlewareOptions(mos) : mos \in RPCOptionLists }
    /\ recovery \in BOOLEAN
    /\ r \in { [Method |-> m, Path |-> <<>>, UserAgent |-> <<"grpc-go/1.30">>,
                XForwardedFor |-> <<>>, RemoteAddr |-> <<"tcp://10.0.0.7:41234">>] :
               m \in FullMethods }
    /\ ctx = EmptyMap
    /\ request = <<>>
    /\ w = NewResponseWriter
    /\ logs = <<>>
    /\ hpc = "rpc-idle"
    /\ pv = <<>>
    /\ steps = 0
    /\ call \in { [NoCall EXCEPT !.stream = b] : b \in BOOLEAN }
    /\ hooks = <<>>

\* intercept / interceptStream up to the call of the handler: WithLogger and
\* requestFromContext
Intercept ==
    /\ hpc = "rpc-idle"
    /\ request' = << [ Method |-> r.Method, UserAgent |-> r.UserAgent,
                       PeerAddr |-> r.RemoteAddr, Deadline |-> <<>>, Duration |-> <<>> ] >>
    /\ ctx' = Put(ctx, "grpcRequest", V("*GRPCRequest", <<>>))
    /\ hpc' = "rpc-handler"
    /\ UNCHANGED <<opts, recovery, r, w, logs, pv, steps, call, hooks>>
    /\ UNCHANGED fvars

\* the handler calls ctxlogrus.Extract(ctx).Info(...)
RPCHandlerLog ==
    /\ hpc = "rpc-handler"
    /\ steps < MaxHandlerSteps
    /\ steps' = steps + 1
    /\ logs' = Append(logs, Record("info", <<"some ping">>, ctx, request[1]))
    /\ UNCHANGED <<opts, recovery, r, ctx, request, w, hpc, pv, call, hooks>>
    /\ UNCHANGED fvars

\* the handler returns resp and err (a stream handler only err); the deferred
\* function of a recovery interceptor finds recover() nil and leaves them alone
RPCHandlerReturn(resp, err) ==
    /\ hpc = "rpc-handler"
    /\ call.stream => resp = <<>>
    /\ call' = [call EXCEPT !.hresp = resp, !.herr = err, !.resp = resp, !.err = err]
    /\ hpc' = "rpc-returned"
    /\ UNCHANGED <<opts, recovery, r, ctx, request, w, logs, pv, steps, hooks>>
    /\ UNCHANGED fvars

\* the handler panics with v
RPCHandlerPanic(v) ==
    /\ hpc = "rpc-handler"
    /\ pv' = <<v>>
    /\ hpc' = "rpc-panicking"
    /\ UNCHANGED <<opts, recovery, r, ctx, request, w, logs, steps, call, hooks>>
    /\ UNCHANGED fvars

\* the deferred function of UnaryRecoveryInterceptor / StreamRecoveryInterceptor
\* with errWithStack; rv is what recover() returned.  When it is nil the named
\* results keep their zero values.
RPCRecover(reqID, rv) ==
    /\ hpc = "rpc-panicking"
    /\ recovery
    /\ rv \in Recovered(pv[1])
    /\ IF rv.t = "nil"
       THEN UNCHANGED <<logs, call>>
       ELSE /\ logs' = Append(logs, PanicRecord(ctx, request[1], PanicError(rv)))
            /\ call' = [call EXCEPT !.resp = <<>>,
                                    !.err = << StatusError(Internal, <<"server error">>, reqID) >>]
    /\ hpc' = "rpc-returned"
    /\ UNCHANGED <<opts, recovery, r, ctx, request, w, pv, steps, hooks>>
    /\ UNCHANGED fvars

\* without a recovery interceptor the panic unwinds through the logging
\* interceptor, which defers nothing
RPCUnwind ==
    /\ hpc = "rpc-panicking"
    /\ ~recovery
    /\ hpc' = "rpc-crashed"
    /\ UNCHANGED <<opts, recovery, r, ctx, request, w, logs, pv, steps, call, hooks>>
    /\ UNCHANGED fvars

\* intercept / interceptStream after the handler returned: the duration, l.log,
\* and the return of what the handler returned
RPCFinish ==
    /\ hpc = "rpc-returned"
    /\ LET rq == [request[1] EXCEPT !.Duration = <<"0.00042s">>]
           after == log(opts, ctx, logs, hooks, call.err, r.Method, rq)
       IN  /\ request' = <<rq>>
           /\ ctx' = after.ctx
           /\ logs' = after.logs
           /\ hooks' = after.hooks
    /\ hpc' = "rpc-done"
    /\ UNCHANGED <<opts, recovery, r, w, pv, steps, call>>
    /\ UNCHANGED fvars

NextRPC ==
    \/ Intercept
    \/ RPCHandlerLog
    \/ \E resp \in Responses, err \in HandlerErrors : RPCHandlerReturn(resp, err)
    \/ \E v \in PanicValues : RPCHandlerPanic(v)
    \/ \E reqID \in RequestIDs, rv \in RecoveredValues : RPCRecover(reqID, rv)
    \/ RPCUnwind
    \/ RPCFinish

SpecRPC == InitRPC /\ [][NextRPC]_vars

\* one request of either kind through the logging middleware
InitMiddleware == InitHTTP \/ InitRPC

NextMiddleware == NextHTTP \/ NextRPC

SpecMiddleware == InitMiddleware /\ [][NextMiddleware]_vars

----------------------------------------------------------------------------
(* Claims about the gRPC interceptors, under SpecRPC *)

\* the recovery interceptor has returned to the logging interceptor
RPCReturned == hpc \in {"rpc-returned", "rpc-done"}

\* C14: when a handler wrapped by a recovery interceptor panics with any value,
\* the interceptor does not re-panic, returns a nil response and an error with
\* status Internal whose details carry a non-empty request id, and has logged
\* one ERROR record with the stack; when the handler does not panic, what it
\* returned is returned unchanged.
C14_RecoveryConvertsEveryPanic ==
    /\ recovery => hpc # "rpc-crashed"
    /\ (recovery /\ RPCReturned /\ pv # <<>>) =>
           /\ call.resp = <<>>
           /\ call.err # <<>>
           /\ call.err[1].t = "status"
           /\ call.err[1].code = Internal
           /\ call.err[1].details # <<>>
           /\ Cardinality(ErrorRecordsWithStack) = 1
    /\ (recovery /\ RPCReturned /\ pv = <<>>) =>
           /\ call.resp = call.hresp
           /\ call.err = call.herr

\* the records the logging interceptor emitted itself: all but the handler's
\* and the recovery interceptor's
InterceptorRecords ==
    { i \in 1..Len(logs) :
        logs[i].Message \notin { <<"some ping">>, <<"panic handling request">> } }

\* the RPC completed, passed the RPC filter, and the error handler is the default
FilteredInByDefaultHandler ==
    /\ hpc = "rpc-done"
    /\ filterRPC(opts, r.Method, call.err)
    /\ opts.customErrHandler = "DefaultErrorHandler"

\* the error the handler chain returned has status Internal
ReturnedInternal == call.err # <<>> /\ Convert(call.err[1]).code = Internal

\* C16: for an RPC that passes the RPC filter, with the default error handler,
\* the logging interceptor emits exactly one record on completion, at ERROR level
\* when the returned error has status Internal and at INFO level otherwise, and
\* no record of another level.
C16_OneSummaryLevelByStatus ==
    FilteredInByDefaultHandler =>
        /\ Cardinality(InterceptorRecords) = 1
        /\ \A i \in InterceptorRecords :
               logs[i].Level = IF ReturnedInternal THEN "error" ELSE "info"

\* the summary/error records: the "served ..." record with the request details
\* and the record of an internal error response
CompletionRecords ==
    SummaryRecords \cup
    { i \in 1..Len(logs) :
        /\ logs[i].Level = "error"
        /\ HasPrefix(logs[i].Message, <<"internal error response on RPC ">>) }

\* the RPC completed and had passed the RPC filter
FilteredIn == filterRPC(opts, r.Method, call.err)

\* every invocation of the custom error handler came before any summary record
HandlerBeforeSummary ==
    \A k \in 1..Len(hooks), j \in CompletionRecords : hooks[k].logged < j

\* the error handler was invoked and reported the error as handled
ReportedHandled ==
    hooks # <<>> /\ customErrHandler(opts, hooks[1].err, hooks[1].method)

\* C17 as stated: the custom error handler is invoked for every filtered-in RPC
\* that returns a non-nil error, before any summary record for it; when it returns
\* true no summary record is emitted; it is never invoked for a nil error or a
\* request the RPC filter rejects.
C17_HandlerForEveryError ==
    hpc = "rpc-done" =>
        /\ (FilteredIn /\ call.err # <<>>) => hooks # <<>>
        /\ HandlerBeforeSummary
        /\ ReportedHandled => CompletionRecords = {}
        /\ (call.err = <<>> \/ ~FilteredIn) => hooks = <<>>

\* C17 amended: the custom error handler is invoked, once and with the returned
\* error, exactly for the filtered-in RPCs whose non-nil error has a status that
\* marshals and a code other than Internal, before any summary record; when it
\* returns true no summary record is emitted.
C17_HandlerForOtherThanInternal ==
    hpc = "rpc-done" =>
        /\ IF FilteredIn /\ call.err # <<>> /\ Marshals(Convert(call.err[1]))
              /\ Convert(call.err[1]).code # Internal
           THEN Len(hooks) = 1 /\ hooks[1].err = call.err[1] /\ hooks[1].method = r.Method
           ELSE hooks = <<>>
        /\ HandlerBeforeSummary
        /\ ReportedHandled => CompletionRecords = {}

\* an error that a custom error handler reported as handled
C17_Witness ==
    /\ hpc = "rpc-done"
    /\ opts.customErrHandler = "Handled"
    /\ ReportedHandled
    /\ CompletionRecords = {}

----------------------------------------------------------------------------
(* Claims about the logging middleware of either kind, under SpecMiddleware *)

\* the wrapped handler, with the recovery middleware around it, has returned
HandlerReturned == hpc \in {"returned", "done", "rpc-returned", "rpc-done"}

\* C15: for a single request through the logging middleware, HTTP or RPC, the
\* summary/error record is emitted at most once and never before the wrapped
\* handler has returned; when the handler panicked and a recovery middleware
\* inside the logging middleware recovered, the panic record precedes it.
C15_SummaryOnceAfterHandler ==
    /\ Cardinality(CompletionRecords) <= 1
    /\ CompletionRecords # {} => HandlerReturned
    /\ \A i \in ErrorRecordsWithStack, j \in CompletionRecords : i < j

\* a recovered panic of an RPC handler with both of its records emitted
C15_Witness ==
    /\ hpc = "rpc-done"
    /\ recovery
    /\ pv # <<>>
    /\ ErrorRecordsWithStack # {}
    /\ CompletionRecords # {}

\* the well-known probe agents
ProbeAgents ==
    { <<"Envoy/HC">>, <<"kube-probe/">>, <<"GoogleHC/">>, <<"GoogleStackdriverMonitoring">> }

\* the RPC's full method is one of health checking or reflection
HealthOrReflection ==
    HasPrefix(r.Method, <<"/grpc.health">>) \/ HasPrefix(r.Method, <<"/grpc.reflection">>)

\* an RPC is excluded exactly when its method is one of health checking or
\* reflection, and then the interceptor logs nothing, whatever was returned
RPCExcludedByMethod ==
    (hpc = "rpc-done" /\ opts = defaultLogOptions) =>
        (InterceptorRecords = {} <=> HealthOrReflection)

\* C26 as stated: under default options an HTTP request is excluded from summary
\* logging exactly when its path begins with /health or its User-Agent contains
\* a well-known probe agent, an RPC exactly when its full method begins with
\* /grpc.health or /grpc.reflection; for an excluded RPC nothing is logged even
\* for an Internal error.
C26_ExcludedByPathOrAgentSubstring ==
    /\ (hpc = "done" /\ opts = defaultLogOptions) =>
           ( SummaryRecords = {} <=>
                 \/ HasPrefix(r.Path, <<"/", "health">>)
                 \/ \E a \in ProbeAgents : Contains(r.UserAgent, a) )
    /\ RPCExcludedByMethod

\* C26, amended: the User-Agent excludes the request when it is Envoy/HC exactly
\* or begins with kube-probe/, GoogleHC/ or GoogleStackdriverMonitoring; a probe
\* agent elsewhere in the User-Agent does not.
C26_ExcludedByPathOrAgentPrefix ==
    /\ (hpc = "done" /\ opts = defaultLogOptions) =>
           ( SummaryRecords = {} <=>
                 \/ HasPrefix(r.Path, <<"/", "health">>)
                 \/ r.UserAgent = <<"Envoy/HC">>
                 \/ \E a \in ProbeAgents \ {<<"Envoy/HC">>} : HasPrefix(r.UserAgent, a) )
    /\ RPCExcludedByMethod

\* a reflection RPC that returned an Internal error, and nothing logged for it
C26_Witness ==
    /\ hpc = "rpc-done"
    /\ opts = defaultLogOptions
    /\ HasPrefix(r.Method, <<"/grpc.reflection">>)
    /\ ReturnedInternal
    /\ InterceptorRecords = {}

----------------------------------------------------------------------------
(* logger.go: the go-kit adapter's extractLogElements.  A key or value is   *)
(* taken by its fmt.Sprint rendering, a TLA+ string, "" being empty.        *)

msgKey == "msg"
messageKey == "message"
errKey == "err"
errorKey == "error"
severityKey == "severity"
levelKey == "level"

\* the logrus.Level numbers: a smaller number is more severe
LevelRank(level) ==
    CASE level = "panic" -> 0
      [] level = "fatal" -> 1
      [] level = "error" -> 2
      [] level = "warning" -> 3
      [] level = "info" -> 4
      [] level = "debug" -> 5
      [] level = "trace" -> 6

\* logrus.ParseLevel(s): <<level>>, or <<>> when it returns an error
ParseLevel(s) ==
    IF s \in {"warn", "warning"} THEN <<"warning">>
    ELSE IF s \in Levels THEN <<s>>
    ELSE <<>>

\* gokitlog.ErrMissingValue
ErrMissingValue == V("error", <<"(MISSING)">>)

\* one round of the loop of extractLogElements, for the key at index i (from 1)
ExtractPair(kvs, i, st) ==
    LET fieldKey == kvs[i]
    IN  IF i + 1 <= Len(kvs)
        THEN LET fieldValue == kvs[i + 1]
                 parsedLevel == ParseLevel(fieldValue)
             IN  IF fieldKey \in {msgKey, messageKey} /\ st.msg = ""
                 THEN [st EXCEPT !.msg = fieldValue]
                 ELSE IF fieldKey \in {errKey, errorKey}
                 THEN IF fieldValue # ""
                      THEN [st EXCEPT !.msg = fieldValue, !.level = "error"]
                      ELSE st
                 ELSE IF fieldKey \in {levelKey, severityKey}
                 THEN IF parsedLevel = <<>> \/ LevelRank(st.level) < LevelRank(parsedLevel[1])
                      THEN [st EXCEPT !.level = "error",
                                      !.fields = Put(@, levelKey, V("string", <<fieldValue>>))]
                      ELSE [st EXCEPT !.level = parsedLevel[1]]
                 ELSE [st EXCEPT !.fields = Put(@, fieldKey, V("string", <<fieldValue>>))]
        ELSE [st EXCEPT !.fields = Put(@, fieldKey, ErrMissingValue)]

RECURSIVE ExtractFrom(_, _, _)
\* the loop of extractLogElements from index i on
ExtractFrom(kvs, i, st) ==
    IF i > Len(kvs) THEN st ELSE ExtractFrom(kvs, i + 2, ExtractPair(kvs, i, st))

\* extractLogElements(keyVals...): [fields, level, msg]
extractLogElements(kvs) ==
    ExtractFrom(kvs, 1, [fields |-> EmptyMap, level |-> "debug", msg |-> ""])

----------------------------------------------------------------------------
(* The go-kit adapter as a state machine: a caller lists keyvals, Log runs *)
(* extractLogElements and builds the entry                                 *)

\* the pairs a caller gives
KeyvalPairs ==
    { <<k, v>> : k \in {msgKey}, v \in {"", "some message"} }
    \cup { <<k, v>> : k \in {errKey}, v \in {"", "test error"} }
    \cup { <<k, v>> : k \in {levelKey, severityKey}, v \in {"debug", "fatal", "trace", "loud"} }
    \cup { <<"foo", "bar">> }

InitGoKit ==
    /\ f = NewFormatter(<<>>, <<"7f", "3c", "uuid">>)
    /\ e = NewEntry
    /\ stk = <<>>
    /\ origin = <<>>
    /\ out = [panic |-> FALSE, ee |-> EmptyEntry]
    /\ fpc = "build"
    /\ reqs = <<>>
    /\ again = [panic |-> FALSE, ee |-> EmptyEntry]
    /\ keyvals = <<>>
    /\ NoRequest

\* the caller writes one more key and value
AddKeyval(kv) ==
    /\ fpc = "build"
    /\ Len(keyvals) % 2 = 0
    /\ Len(keyvals) + 2 <= MaxKeyvals
    /\ keyvals' = keyvals \o kv
    /\ UNCHANGED <<f, e, stk, origin, out, fpc, again, reqs>>
    /\ UNCHANGED hvars

\* the caller writes a last key without a value
AddOddKey(k) ==
    /\ fpc = "build"
    /\ Len(keyvals) % 2 = 0
    /\ Len(keyvals) < MaxKeyvals
    /\ keyvals' = Append(keyvals, k)
    /\ UNCHANGED <<f, e, stk, origin, out, fpc, again, reqs>>
    /\ UNCHANGED hvars

\* LogrusGoKitLogger.Log up to entry.Log: the entry with the fields, and the
\* level and message it is logged with
GoKitLog ==
    /\ fpc = "build"
    /\ LET el == extractLogElements(keyvals)
       IN  e' = [e EXCEPT !.Data = el.fields, !.Level = el.level,
                          !.Message = IF el.msg = "" THEN <<>> ELSE <<el.msg>>]
    /\ fpc' = "extracted"
    /\ UNCHANGED <<f, stk, origin, out, keyvals, again, reqs>>
    /\ UNCHANGED hvars

NextGoKit ==
    \/ \E kv \in KeyvalPairs : AddKeyval(kv)
    \/ AddOddKey("trailing")
    \/ GoKitLog

SpecGoKit == InitGoKit /\ [][NextGoKit]_vars

----------------------------------------------------------------------------
(* Claims about the go-kit adapter, under SpecGoKit *)

\* the indexes of the keys that have a value
PairKeys == { i \in 1..Len(keyvals) : i % 2 = 1 /\ i + 1 <= Len(keyvals) }

\* the err pairs with a non-empty value
ErrPairs == { i \in PairKeys : keyvals[i] \in {errKey, errorKey} /\ keyvals[i + 1] # "" }

\* the msg pairs
MsgPairs == { i \in PairKeys : keyvals[i] \in {msgKey, messageKey} }

\* the text of the last err pair with a non-empty value
LastErrText == keyvals[(CHOOSE i \in ErrPairs : \A j \in ErrPairs : j <= i) + 1]

\* C25: for keyvals with an err pair of non-empty value the message is that
\* error text and the level is at least as severe as Error, wherever the msg and
\* level pairs stand; a msg pair that does not become the message is kept as an
\* ordinary field; without any level or err pair the level is Debug.
C25_ErrTakesMessageAndLevel ==
    fpc = "extracted" =>
        /\ ErrPairs # {} =>
               /\ e.Message = <<LastErrText>>
               /\ LevelRank(e.Level) <= LevelRank("error")
               /\ \A i \in MsgPairs :
                      keyvals[i] \in DOMAIN e.Data
                      /\ \E j \in MsgPairs : e.Data[keyvals[i]] = V("string", <<keyvals[j + 1]>>)
        /\ (\A i \in PairKeys : keyvals[i] \notin {errKey, errorKey, levelKey, severityKey})
               => e.Level = "debug"

----------------------------------------------------------------------------
(* Two requests served concurrently through middlewares that share one logger *)

\* the goroutines serving a request each
Workers == {"a", "b"}

\* the request each worker serves
WorkerRequest(i) ==
    [ Method |-> <<"GET">>,
      Path |-> IF i = "a" THEN <<"/", "api", "/", "health">> ELSE <<"/", "orders">>,
      UserAgent |-> <<"curl/7.79">>, XForwardedFor |-> <<>>,
      RemoteAddr |-> <<"192.0.2.1", ":", "4711">> ]

\* the middlewares the program builds with LoggingMiddleware(log, opts...)
Middlewares == {"api", "admin"}

ConcurrentOptionLists ==
    { <<>>, << WithHTTPFilter("AlwaysTrue") >>, << WithHTTPFilter("AlwaysFalse") >> }

\* a faulty evaluateMiddlewareOptions: the options are applied to the package's
\* defaultLogOptions, which is returned
evaluateMiddlewareOptionsInPlace(defaults, mos) ==
    [defaults |-> ApplyMiddlewareOptions(defaults, mos),
     o |-> ApplyMiddlewareOptions(defaults, mos)]

\* evaluateMiddlewareOptions(opts) with the package variable defaultLogOptions
\* holding defaults: the options are applied to optCopy, a new middlewareOptions
\* the defaults were copied into; the result is the package variable afterwards
\* and the options returned
evaluateMiddlewareOptionsFrom(defaults, mos) ==
    [defaults |-> defaults, o |-> ApplyMiddlewareOptions(defaults, mos)]

\* a faulty WithLogger: the context of every request holds one and the same entry
WithLoggerShared(loggers) ==
    IF loggers = <<>> THEN [loggers |-> <<EmptyMap>>, ctx |-> 1]
    ELSE [loggers |-> loggers, ctx |-> 1]

\* WithLogger(ctx, logger): ctxlogrus.ToContext puts a new ctxLogger, with no
\* fields yet, into the context.  loggers are the ctxLoggers allocated so far and
\* the result's ctx is the one the returned context refers to.
WithLogger(loggers) ==
    [loggers |-> Append(loggers, EmptyMap), ctx |-> Len(loggers) + 1]

\* request := &HTTPRequest{...} (lines 56-64)
NewHTTPRequest(rq) ==
    [ RequestMethod |-> rq.Method, RequestURL |-> rq.Path, RemoteIP |-> getRemoteIP(rq),
      Referer |-> <<>>, UserAgent |-> rq.UserAgent, RequestSize |-> <<"0">>,
      Protocol |-> <<"HTTP/1.1">>, Status |-> <<>>, Latency |-> <<>>, ResponseSize |-> <<>> ]

\* a worker no request has reached
IdleWorker(i) ==
    [pc |-> "idle", mw |-> "", r |-> WorkerRequest(i), ctx |-> 0, request |-> 0,
     w |-> NewResponseWriter, steps |-> 0]

\* the logrus entry the logger hands to the formatter
EmittedEntry(rec) ==
    [NewEntry EXCEPT !.Data = rec.Data, !.Level = rec.Level, !.Message = rec.Message,
                     !.Time = LogTime]

InitConcurrent ==
    /\ f = NewFormatter(<<>>, <<"7f", "3c", "uuid">>)
    /\ e = NewEntry
    /\ stk = <<>>
    /\ origin = <<>>
    /\ out = [panic |-> FALSE, ee |-> EmptyEntry]
    /\ fpc = "build"
    /\ again = [panic |-> FALSE, ee |-> EmptyEntry]
    /\ keyvals = <<>>
    /\ reqs = [ defaults |-> defaultLogOptions, mws |-> EmptyMap, loggers |-> <<>>,
                requests |-> <<>>, by |-> <<>>, wk |-> [i \in Workers |-> IdleWorker(i)] ]
    /\ opts = defaultLogOptions
    /\ recovery = FALSE
    /\ r = WorkerRequest("a")
    /\ ctx = EmptyMap
    /\ request = <<>>
    /\ w = NewResponseWriter
    /\ logs = <<>>
    /\ hpc = "idle"
    /\ pv = <<>>
    /\ steps = 0
    /\ call = NoCall
    /\ hooks = <<>>

\* what every action of the concurrent program leaves alone
ConcurrentFrame ==
    /\ UNCHANGED <<f, stk, origin, fpc, again, keyvals>>
    /\ UNCHANGED <<opts, recovery, r, ctx, request, w, hpc, pv, steps, call, hooks>>

\* the shared logger emits rec for worker i: its formatter's ToEntry runs
Emit(i, rec, rs) ==
    /\ logs' = Append(logs, rec)
    /\ e' = EmittedEntry(rec)
    /\ out' = ToEntry(f, EmittedEntry(rec), <<>>, Now)
    /\ reqs' = [rs EXCEPT !.by = Append(@, i)]

\* LoggingMiddleware(log, opts...) builds the middleware m (line 48)
BuildMiddleware(m, mos) ==
    /\ m \notin DOMAIN reqs.mws
    /\ LET ev == evaluateMiddlewareOptionsFrom(reqs.defaults, mos)
       IN  reqs' = [reqs EXCEPT !.defaults = ev.defaults,
                                !.mws = Put(reqs.mws, m, [opts |-> mos, o |-> ev.o])]
    /\ UNCHANGED <<e, out, logs>>
    /\ ConcurrentFrame

\* LoggingMiddleware of m up to the call of the handler (lines 52-66), for worker i
ConcurrentServe(i, m) ==
    /\ reqs.wk[i].pc = "idle"
    /\ m \in DOMAIN reqs.mws
    /\ LET wl == WithLogger(reqs.loggers)
           at == Len(reqs.requests) + 1
       IN  reqs' = [reqs EXCEPT
                      !.loggers = [wl.loggers EXCEPT ![wl.ctx] =
                                      Put(Put(@, "forwardIP", V("string", reqs.wk[i].r.XForwardedFor)),
                                          "httpRequest", V("*HTTPRequest", <<at>>))],
                      !.requests = Append(@, NewHTTPRequest(reqs.wk[i].r)),
                      !.wk[i] = [@ EXCEPT !.pc = "handler", !.mw = m, !.ctx = wl.ctx,
                                          !.request = at]]
    /\ UNCHANGED <<e, out, logs>>
    /\ ConcurrentFrame

\* the handler of worker i calls w.WriteHeader(code)
ConcurrentWriteHeader(i, code) ==
    /\ reqs.wk[i].pc = "handler"
    /\ reqs.wk[i].steps < MaxHandlerSteps
    /\ reqs' = [reqs EXCEPT !.wk[i].steps = @ + 1, !.wk[i].w = WriteHeader(@, code)]
    /\ UNCHANGED <<e, out, logs>>
    /\ ConcurrentFrame

\* the handler of worker i calls ctxlogrus.AddFields(ctx, logrus.Fields{"testField": r.URL.Path})
ConcurrentAddFields(i) ==
    /\ reqs.wk[i].pc = "handler"
    /\ reqs.wk[i].steps < MaxHandlerSteps
    /\ reqs' = [reqs EXCEPT !.wk[i].steps = @ + 1,
                            !.loggers[reqs.wk[i].ctx] =
                                Put(@, "testField", V("string", reqs.wk[i].r.Path))]
    /\ UNCHANGED <<e, out, logs>>
    /\ ConcurrentFrame

\* the handler of worker i calls ctxlogrus.Extract(ctx).Info(...): the entry carries
\* the fields of the context's ctxLogger, the request record among them
ConcurrentLog(i) ==
    /\ reqs.wk[i].pc = "handler"
    /\ reqs.wk[i].steps < MaxHandlerSteps
    /\ LET fields == reqs.loggers[reqs.wk[i].ctx]
       IN  Emit(i, Record("info", <<"served from http request">>, fields,
                          reqs.requests[fields["httpRequest"].s[1]]),
                [reqs EXCEPT !.wk[i].steps = @ + 1])
    /\ ConcurrentFrame

\* the handler of worker i returns and LoggingMiddleware completes (lines 68-76)
ConcurrentFinish(i) ==
    /\ reqs.wk[i].pc = "handler"
    /\ LET wi == reqs.wk[i]
           rq == [reqs.requests[wi.request] EXCEPT
                      !.Status = <<ToString(MetricsCode(wi.w))>>,
                      !.Latency = <<"0.00042s">>,
                      !.ResponseSize = <<ToString(MetricsWritten(wi.w))>>]
           rs == [reqs EXCEPT !.requests[wi.request] = rq, !.wk[i].pc = "done"]
       IN  IF filterHTTP(reqs.mws[wi.mw].o, wi.r)
           THEN Emit(i, SummaryRecord(reqs.loggers[wi.ctx], rq, wi.r), rs)
           ELSE /\ reqs' = rs
                /\ UNCHANGED <<e, out, logs>>
    /\ ConcurrentFrame

NextConcurrent ==
    \/ \E m \in Middlewares, mos \in ConcurrentOptionLists : BuildMiddleware(m, mos)
    \/ \E i \in Workers, m \in Middlewares : ConcurrentServe(i, m)
    \/ \E i \in Workers : ConcurrentWriteHeader(i, StatusNotFound)
    \/ \E i \in Workers : ConcurrentAddFields(i)
    \/ \E i \in Workers : ConcurrentLog(i)
    \/ \E i \in Workers : ConcurrentFinish(i)

SpecConcurrent == InitConcurrent /\ [][NextConcurrent]_vars

----------------------------------------------------------------------------
(* Claims about concurrent requests and shared configuration, under SpecConcurrent *)

\* the records emitted for worker i
RecordsOf(i) == { k \in 1..Len(logs) : reqs.by[k] = i }

\* C28: however two requests served through the same middleware and logger
\* interleave, every record emitted for a request carries that request's own
\* entry fields and request record: a field added with AddFields during the
\* other request never shows in it, and its status and response size are the
\* ones of its own response.
C28_RequestsDoNotShare ==
    \A i \in Workers : \A k \in RecordsOf(i) :
        LET rec == logs[k]
        IN  /\ rec.Request.RequestURL = reqs.wk[i].r.Path
            /\ "testField" \in DOMAIN rec.Data => rec.Data["testField"].s = reqs.wk[i].r.Path
            /\ rec.Request.Status # <<>> =>
                   /\ rec.Request.Status = <<ToString(MetricsCode(reqs.wk[i].w))>>
                   /\ rec.Request.ResponseSize = <<ToString(MetricsWritten(reqs.wk[i].w))>>

\* both requests went through one middleware, b was served and added its field
\* while a was in its handler, a logged afterwards, and both were summarised with
\* different statuses
C28_Witness ==
    /\ \A i \in Workers : reqs.wk[i].pc = "done"
    /\ reqs.wk["a"].mw = reqs.wk["b"].mw
    /\ reqs.wk["a"].ctx < reqs.wk["b"].ctx
    /\ "testField" \in DOMAIN reqs.loggers[reqs.wk["b"].ctx]
    /\ Len(logs) = 3
    /\ reqs.by = <<"a", "b", "a">>
    /\ logs[1].Request.Status = <<>>
    /\ logs[2].Request.Status = <<"404">>
    /\ logs[3].Request.Status = <<"200">>
    /\ "testField" \notin DOMAIN logs[3].Data

\* the filter override an option list makes, none when it has no WithHTTPFilter
HTTPFilterOverrides(mos) == { mos[k].fn : k \in { x \in DOMAIN mos : mos[x].op = "WithHTTPFilter" } }

\* C29: once built, the shared formatter and the evaluated options of a middleware
\* stay as they are whatever ToEntry or a middleware handler does, and the package's
\* default options never change: evaluateMiddlewareOptions applies the options to a
\* copy of its own, so a middleware built without a filter override filters with
\* DefaultFilterHTTP even when another middleware was built with an override.
C29_SharedConfigurationUnchanged ==
    /\ [][ /\ f' = f
           /\ reqs'.defaults = reqs.defaults
           /\ \A m \in DOMAIN reqs.mws :
                  m \in DOMAIN reqs'.mws /\ reqs'.mws[m] = reqs.mws[m] ]_vars
    /\ [](/\ reqs.defaults = defaultLogOptions
          /\ \A m \in DOMAIN reqs.mws :
                 /\ HTTPFilterOverrides(reqs.mws[m].opts) = {}
                        => reqs.mws[m].o.filterHTTP = "DefaultFilterHTTP"
                 /\ \A fn \in HTTPFilterOverrides(reqs.mws[m].opts) :
                        reqs.mws[m].o.filterHTTP = fn)

\* one middleware was built with a filter that logs nothing and one without any
\* option; a request went through each: the first left no record, the second was
\* summarised and its record assembled by the shared formatter
C29_Witness ==
    /\ DOMAIN reqs.mws = Middlewares
    /\ reqs.mws["api"].opts = << WithHTTPFilter("AlwaysFalse") >>
    /\ reqs.mws["admin"].opts = <<>>
    /\ reqs.mws["admin"].o.filterHTTP = "DefaultFilterHTTP"
    /\ reqs.wk["a"].pc = "done" /\ reqs.wk["a"].mw = "api"
    /\ reqs.wk["b"].pc = "done" /\ reqs.wk["b"].mw = "admin"
    /\ reqs.by = <<"b">>
    /\ ~out.panic /\ out.ee.HTTPRequest # <<>>
    /\ f = NewFormatter(<<>>, <<"7f", "3c", "uuid">>)

====
